---- MODULE Spec2Model ----
(***************************************************************************)
(* Camera recording server (src/camera-mcp-server/app.py): per-camera      *)
(* segment capture workers, the rolling segment store, the assembler and   *)
(* the query API.                                                          *)
(*                                                                         *)
(* Text is a sequence of code points; a code point is written as a short   *)
(* token: "A".."Z", "a".."z", "1", " ", "-", "_", "!" stand for            *)
(* themselves, "Cc"/"cc" for C/c with cedilla, "Sc"/"sc" for S/s with       *)
(* cedilla, "Ii" for capital I with dot above (U+0130) and "dot" for the   *)
(* combining dot above (U+0307).                                           *)
(***************************************************************************)
EXTENDS Integers, Sequences, FiniteSets, TLC

VARIABLES
    ffmpeg,     \* whether check_executable('ffmpeg') finds the tool
    wpc,        \* per camera: position of its capture worker thread
    sess,       \* per camera: the running session's filename timestamp
    written,    \* per camera: segments the running session has opened
    cur,        \* per camera: the file the session is writing, or NoFile
    proc,       \* per camera: the session's ffmpeg process
    sig,        \* per camera: the last signal the worker sent to that process
    wclock,     \* per segment directory: modification-time source
    dirs,       \* the ts_segments/ tree: directory name -> files (absent: NoDir)
    sessions,   \* capture sessions started so far (all cameras)
    late,       \* worker steps taken since the first API request arrived
    req,        \* the API request being handled (the event loop runs one)
    requests,   \* API requests received so far
    recordings, \* the .mp4 files of recordings/
    manifests,  \* the filelist .txt files of recordings/
    rclock,     \* the clock second of the latest assembly
    made,       \* output files written so far (creation-time source)
    oks,        \* per camera: assemblies that returned their output file
    tbl,        \* the configured camera table (static)
    quota,      \* API requests this behaviour receives (static)
    qry, found, \* input and result of a bare camera lookup
    recording_threads, \* the global list of worker threads, by camera
    threads,    \* per camera: worker threads started for it so far
    now,        \* the wall clock, in seconds
    status,     \* the result of a bare status computation
    cameras_cache,   \* CameraMonitor.cameras_cache
    cache_timestamp, \* CameraMonitor.cache_timestamp (None: 0)
    reply,      \* what the monitor's last call got from GET /cameras
    mret,       \* what the monitor's last call returned
    mcalls,     \* calls of the monitor's camera list so far
    clip,       \* the last duration a client turned into request minutes
    cap,        \* capture_video: position, attempt, exit code, output file
    rec,        \* camera_mcp_server: the recorder loop of one camera
    latest      \* camera_mcp_server: what get_latest_recording returned

wvars == <<ffmpeg, wpc, sess, written, cur, proc, sig, wclock, dirs, sessions>>
avars == <<req, requests, recordings, manifests, rclock, made, oks>>
tvars == <<recording_threads, threads>>
cvars == <<now, status, cameras_cache, cache_timestamp, reply, mret, mcalls>>
xvars == <<clip, cap, rec, latest>>
fvars == <<tbl, quota, qry, found, tvars, cvars, xvars>>
vars == <<wvars, late, avars, fvars>>

(***************************************************************************)
(* Bounds of the model                                                     *)
(***************************************************************************)
MaxSessions == 2       \* capture sessions one worker starts in a behaviour
ExtraSegs == 1         \* segments a session may open beyond MAX_SEGMENTS
MaxCameras == 1        \* entries of the camera table that are configured
MaxRequests == 1       \* API requests received in one behaviour
MaxRace == 1           \* worker steps interleaved once requests arrive
MaxNameLen == 2        \* code points in a drawn camera name or query
MaxCalls == 3          \* API requests received by a server that only serves
ApiSegments == 7       \* segments in the store of a server that only serves
WorkerCameras == 2     \* cameras of a server that only captures
MaxNow == 62           \* the last second of the wall clock
MaxStatusSegs == 3     \* segments of a drawn store whose status is computed
MaxMtime == 3          \* the latest modification second in such a store
MaxClientDuration == 700  \* the largest duration (and its negative) a client is handed
CaptureStep == 15         \* seconds between two looks at a running capture attempt
MaxKept == 3              \* deliverables of one camera in a drawn recordings/
MaxRuns == 3              \* ffmpeg runs of the recorder loop in a behaviour
MaxClipSize == 2          \* writes into one clip after its creation
MaxMonitorCalls == 3   \* calls of the monitor's camera list in a behaviour

(***************************************************************************)
(* Configuration constants                                                 *)
(***************************************************************************)
SEGMENT_DURATION == 10
MAX_SEGMENTS == 18
SESSION_SECONDS == 180
KEEP_COUNT == 2
MIN_DURATION == 1
MAX_DURATION == 10
DEFAULT_RECORDING_DURATION == 1
ACTIVE_SECONDS == 60
cache_duration == 30

\* The names of the camera table, in the table's order; a behaviour is
\* configured with the first entries of it.
cameras ==
    << <<"K","A","P","A","L","I"," ","Cc","A","R","Sc","I">>,
       <<"M","E","T","R","O","H","A","N">>,
       <<"S","A","R","A","Cc","H","A","N","E">>,
       <<"S","U","L","T","A","N","A","H","M","E","T"," ","1">>,
       <<"T","A","K","S","Ii","M"," ","M","E","Y","D","A","N","I">> >>

(***************************************************************************)
(* Text helpers                                                            *)
(***************************************************************************)
UpperLetters == <<"A","B","C","D","E","F","G","H","I","J","K","L","M",
                  "N","O","P","Q","R","S","T","U","V","W","X","Y","Z">>
LowerLetters == <<"a","b","c","d","e","f","g","h","i","j","k","l","m",
                  "n","o","p","q","r","s","t","u","v","w","x","y","z">>

Range(s) == {s[i] : i \in DOMAIN s}

\* str.lower() of one code point: U+0130 lowers to "i" + U+0307.
LowerOfUpper ==
    [ch \in Range(UpperLetters) |->
        LowerLetters[CHOOSE i \in DOMAIN UpperLetters : UpperLetters[i] = ch]]

LowerChar(ch) ==
    IF ch \in DOMAIN LowerOfUpper THEN <<LowerOfUpper[ch]>>
    ELSE IF ch = "Cc" THEN <<"cc">>
    ELSE IF ch = "Sc" THEN <<"sc">>
    ELSE IF ch = "Ii" THEN <<"i", "dot">>
    ELSE <<ch>>

RECURSIVE Lower(_)
Lower(s) == IF s = <<>> THEN <<>> ELSE LowerChar(Head(s)) \o Lower(Tail(s))

\* the regex classes \w and \s
WordChars == Range(UpperLetters) \cup Range(LowerLetters)
                 \cup {"Cc", "cc", "Sc", "sc", "Ii", "1", "_"}
IsWord(ch) == ch \in WordChars
IsSpace(ch) == ch = " "

\* "needle in hay" on strings
Contains(hay, needle) ==
    \E i \in 0..(Len(hay) - Len(needle)) :
        SubSeq(hay, i + 1, i + Len(needle)) = needle

\* re.sub(r'[^\w\s]', '', s)
RECURSIVE StripSpecial(_)
StripSpecial(s) ==
    IF s = <<>> THEN <<>>
    ELSE IF IsWord(Head(s)) \/ IsSpace(Head(s))
         THEN <<Head(s)>> \o StripSpecial(Tail(s))
         ELSE StripSpecial(Tail(s))

NoCamera == <<"?none">>
NotAsked == <<"?">>

\* the first name of the table satisfying P, or NoCamera
FirstMatch(cams, P(_)) ==
    IF \E i \in DOMAIN cams : P(cams[i])
    THEN cams[CHOOSE i \in DOMAIN cams :
                 P(cams[i]) /\ \A j \in 1..(i - 1) : ~P(cams[j])]
    ELSE NoCamera

\* A lookup that merges the exact and the partial pass into one scan.
FindPartialFirst(cams, camera_loc) ==
    LET q == Lower(camera_loc)
        part(n) == Contains(Lower(n), q)
    IN  FirstMatch(cams, part)

\* A lookup that compares without lowering the query.
FindCaseSensitive(cams, camera_loc) ==
    LET exact(n) == Lower(n) = camera_loc
        part(n) == Contains(Lower(n), camera_loc)
    IN  IF FirstMatch(cams, exact) # NoCamera THEN FirstMatch(cams, exact)
        ELSE FirstMatch(cams, part)

find_camera_by_location(cams, camera_loc) ==
    LET q == Lower(camera_loc)
        exact(n) == Lower(n) = q
        part(n) == Contains(Lower(n), q)
        safe(n) == Contains(StripSpecial(Lower(n)), StripSpecial(q))
    IN  IF FirstMatch(cams, exact) # NoCamera THEN FirstMatch(cams, exact)
        ELSE IF FirstMatch(cams, part) # NoCamera THEN FirstMatch(cams, part)
        ELSE FirstMatch(cams, safe)

\* re.sub(r'[^\w\s-]', '_', name)
RECURSIVE ReplaceUnsafe(_)
ReplaceUnsafe(s) ==
    IF s = <<>> THEN <<>>
    ELSE <<IF IsWord(Head(s)) \/ IsSpace(Head(s)) \/ Head(s) = "-"
           THEN Head(s) ELSE "_">> \o ReplaceUnsafe(Tail(s))

\* re.sub(r'[\s_]+', '_', s)
RECURSIVE CollapseRuns(_)
CollapseRuns(s) ==
    IF s = <<>> THEN <<>>
    ELSE LET sep(ch) == IsSpace(ch) \/ ch = "_"
             rest == CollapseRuns(Tail(s))
         IN  IF sep(Head(s))
             THEN IF rest # <<>> /\ Head(rest) = "_" THEN rest ELSE <<"_">> \o rest
             ELSE <<Head(s)>> \o rest

\* str.strip('_')
RECURSIVE StripUnderscores(_)
StripUnderscores(s) ==
    IF s = <<>> THEN <<>>
    ELSE IF Head(s) = "_" THEN StripUnderscores(Tail(s))
    ELSE IF s[Len(s)] = "_" THEN StripUnderscores(SubSeq(s, 1, Len(s) - 1))
    ELSE s

sanitize_filename(name) == StripUnderscores(CollapseRuns(ReplaceUnsafe(name)))

CameraNames == Range(tbl)


(***************************************************************************)
(* Segment store: ts_segments/<safe name>/                                 *)
(***************************************************************************)
NoFile == -1

\* A file of a segment directory.  kind is its extension; a segment is named
\* <safe>_<session timestamp>_<ordinal>.ts, the playlist <safe>_playlist.m3u8.
TsFile(s, o, m, z) == [kind |-> "ts", sess |-> s, ord |-> o, mtime |-> m, size |-> z]
PlaylistFile == [kind |-> "m3u8", sess |-> 0, ord |-> 0, mtime |-> 0, size |-> 1]

FileName(f) == <<f.sess, f.ord, f.kind>>

\* String order of two segment paths of one directory: the timestamp and the
\* zero-padded ordinal have fixed widths.
PathLess(f, g) == f.sess < g.sess \/ (f.sess = g.sess /\ f.ord < g.ord)

TsFiles(files) == {f \in files : f.kind = "ts"}

\* list.sort(key=mtime, reverse=True)
RECURSIVE InsertByMtimeDesc(_, _)
InsertByMtimeDesc(seq, f) ==
    IF seq = <<>> \/ Head(seq).mtime <= f.mtime THEN <<f>> \o seq
    ELSE <<Head(seq)>> \o InsertByMtimeDesc(Tail(seq), f)

RECURSIVE SortByMtimeDescInto(_, _)
SortByMtimeDescInto(acc, S) ==
    IF S = {} THEN acc
    ELSE LET f == CHOOSE x \in S : TRUE
         IN  SortByMtimeDescInto(InsertByMtimeDesc(acc, f), S \ {f})

SortByMtimeDesc(S) == SortByMtimeDescInto(<<>>, S)

\* list.sort() of paths
RECURSIVE InsertByPath(_, _)
InsertByPath(seq, f) ==
    IF seq = <<>> \/ ~PathLess(f, seq[Len(seq)]) THEN Append(seq, f)
    ELSE Append(InsertByPath(SubSeq(seq, 1, Len(seq) - 1), f), seq[Len(seq)])

RECURSIVE SortByPathInto(_, _)
SortByPathInto(acc, S) ==
    IF S = {} THEN acc
    ELSE LET f == CHOOSE x \in S : TRUE
         IN  SortByPathInto(InsertByPath(acc, f), S \ {f})

SortByPath(S) == SortByPathInto(<<>>, S)

\* seq[:n] and seq[n:]
Take(seq, n) ==
    IF n <= 0 THEN <<>> ELSE IF n >= Len(seq) THEN seq ELSE SubSeq(seq, 1, n)
Drop(seq, n) ==
    IF n <= 0 THEN seq ELSE IF n >= Len(seq) THEN <<>> ELSE SubSeq(seq, n + 1, Len(seq))

\* A cleanup that removes the newest files instead of the oldest.
CleanupKeepOldest(files, max_segments) ==
    LET ts_files == SortByMtimeDesc(TsFiles(files))
    IN  files \ Range(Take(ts_files, Len(ts_files) - max_segments))

\* A cleanup that does not filter on the .ts extension.
CleanupAnyExtension(files, max_segments) ==
    files \ Range(Drop(SortByMtimeDesc(files), max_segments))

\* A cleanup that keeps one file too many.
CleanupOffByOne(files, max_segments) ==
    files \ Range(Drop(SortByMtimeDesc(TsFiles(files)), max_segments + 1))

cleanup_old_segments(files, max_segments) ==
    LET ts_files == SortByMtimeDesc(TsFiles(files))
    IN  files \ Range(Drop(ts_files, max_segments))

(***************************************************************************)
(* Capture worker: record_camera_segments, one thread per camera           *)
(***************************************************************************)
\* safe_name of a camera: sanitize_filename(camera_name), tabulated for the
\* cameras of the table above
SafeOfCameras == [c \in Range(cameras) |-> sanitize_filename(c)]
DirOf(c) == IF c \in DOMAIN SafeOfCameras THEN SafeOfCameras[c]
            ELSE sanitize_filename(c)

NoDir == [exists |-> FALSE, files |-> {}]

SafeNames == {DirOf(n) : n \in CameraNames}

\* ffmpeg's segment muxer opens <pattern % (n mod segment_wrap)>, truncating
\* a file of that name.
OpenedBy(files, s, n, m) ==
    LET f == TsFile(s, n % MAX_SEGMENTS, m, 0)
    IN  {g \in files : FileName(g) # FileName(f)} \cup {f}

\* the muxer has written data into the open segment (and lists it)
FilledBy(files, s, o) ==
    {IF FileName(g) = <<s, o, "ts">> THEN [g EXCEPT !.size = 1] ELSE g : g \in files}
        \cup {PlaylistFile}

\* Thread start: probe the tool, create the camera's directory.  Without
\* the tool the thread returns.
WorkerInit(c) ==
    /\ wpc[c] = "init"
    /\ IF ffmpeg
       THEN /\ wpc' = [wpc EXCEPT ![c] = "loop"]
            /\ dirs' = [dirs EXCEPT ![DirOf(c)] = [@ EXCEPT !.exists = TRUE]]
       ELSE /\ wpc' = [wpc EXCEPT ![c] = "exited"]
            /\ dirs' = dirs
    /\ UNCHANGED <<ffmpeg, sess, written, cur, proc, sig, wclock, sessions>>

\* Top of the loop: a new filename timestamp and a new ffmpeg process; a
\* Popen that raises lands in the except clause.
StartSession(c) ==
    /\ wpc[c] = "loop"
    /\ sess[c] < MaxSessions
    /\ sess' = [sess EXCEPT ![c] = @ + 1]
    /\ written' = [written EXCEPT ![c] = 0]
    /\ cur' = [cur EXCEPT ![c] = NoFile]
    /\ sessions' = sessions + 1
    /\ \/ /\ wpc' = [wpc EXCEPT ![c] = "capturing"]
          /\ proc' = [proc EXCEPT ![c] = "running"]
          /\ sig' = [sig EXCEPT ![c] = "none"]
       \/ /\ wpc' = [wpc EXCEPT ![c] = "backoff"]
          /\ UNCHANGED <<proc, sig>>
    /\ UNCHANGED <<ffmpeg, wclock, dirs>>

\* except Exception: print, time.sleep(10), next iteration.
SessionBackoff(c) ==
    /\ wpc[c] = "backoff"
    /\ wpc' = [wpc EXCEPT ![c] = "loop"]
    /\ UNCHANGED <<ffmpeg, sess, written, cur, proc, sig, wclock, dirs, sessions>>

\* ffmpeg cannot reach the stream and exits by itself.
ProcessDies(c) ==
    /\ wpc[c] = "capturing"
    /\ proc[c] = "running"
    /\ written[c] = 0
    /\ proc' = [proc EXCEPT ![c] = "exited"]
    /\ UNCHANGED <<ffmpeg, wpc, sess, written, cur, sig, wclock, dirs, sessions>>

\* The running ffmpeg opens its next segment file.
OpenSegment(c) ==
    /\ wpc[c] = "capturing"
    /\ proc[c] = "running"
    /\ cur[c] = NoFile
    /\ written[c] < MAX_SEGMENTS + ExtraSegs
    /\ LET d == DirOf(c) IN
       /\ dirs' = [dirs EXCEPT ![d] =
                     [@ EXCEPT !.files = OpenedBy(@, sess[c], written[c], wclock[d] + 1)]]
       /\ wclock' = [wclock EXCEPT ![d] = @ + 1]
    /\ cur' = [cur EXCEPT ![c] = written[c] % MAX_SEGMENTS]
    /\ written' = [written EXCEPT ![c] = @ + 1]
    /\ UNCHANGED <<ffmpeg, wpc, sess, proc, sig, sessions>>

\* The running ffmpeg writes the open segment's data.
WriteSegment(c) ==
    /\ wpc[c] = "capturing"
    /\ proc[c] = "running"
    /\ cur[c] # NoFile
    /\ dirs' = [dirs EXCEPT ![DirOf(c)] =
                  [@ EXCEPT !.files = FilledBy(@, sess[c], cur[c])]]
    /\ cur' = [cur EXCEPT ![c] = NoFile]
    /\ UNCHANGED <<ffmpeg, wpc, sess, written, proc, sig, wclock, sessions>>

\* A stop that kills the process at once.
KillAtOnce(c) ==
    /\ wpc[c] = "capturing"
    /\ proc[c] = "exited" \/ written[c] = 0
         \/ written[c] * SEGMENT_DURATION >= SESSION_SECONDS
    /\ wpc' = [wpc EXCEPT ![c] = "waiting"]
    /\ sig' = [sig EXCEPT ![c] = "kill"]
    /\ cur' = [cur EXCEPT ![c] = NoFile]
    /\ UNCHANGED <<ffmpeg, sess, written, proc, wclock, dirs, sessions>>

\* time.sleep(180) is over: process.terminate().  A stream that delivers
\* does so in real time, so SESSION_SECONDS of it have been opened; an
\* unreachable one has delivered nothing.
StopSession(c) ==
    /\ wpc[c] = "capturing"
    /\ proc[c] = "exited" \/ written[c] = 0
         \/ written[c] * SEGMENT_DURATION >= SESSION_SECONDS
    /\ wpc' = [wpc EXCEPT ![c] = "waiting"]
    /\ sig' = [sig EXCEPT ![c] = "term"]
    /\ cur' = [cur EXCEPT ![c] = NoFile]
    /\ UNCHANGED <<ffmpeg, sess, written, proc, wclock, dirs, sessions>>

\* process.wait(timeout=10); on TimeoutExpired process.kill() and
\* process.wait().
WaitSession(c) ==
    /\ wpc[c] = "waiting"
    /\ \E expired \in BOOLEAN :
          /\ expired => proc[c] = "running"
          /\ sig' = [sig EXCEPT ![c] = IF expired THEN "kill" ELSE @]
    /\ proc' = [proc EXCEPT ![c] = "exited"]
    /\ wpc' = [wpc EXCEPT ![c] = "cleanup"]
    /\ UNCHANGED <<ffmpeg, sess, written, cur, wclock, dirs, sessions>>

\* A cleanup that prunes every camera's directory.
CleanupAllDirs(c) ==
    /\ wpc[c] = "cleanup"
    /\ dirs' = [d \in DOMAIN dirs |->
                  [dirs[d] EXCEPT !.files = cleanup_old_segments(@, MAX_SEGMENTS)]]
    /\ wpc' = [wpc EXCEPT ![c] = "loop"]
    /\ UNCHANGED <<ffmpeg, sess, written, cur, proc, sig, wclock, sessions>>

\* cleanup_old_segments(camera_ts_dir, MAX_SEGMENTS), then the next iteration.
CleanupSegments(c) ==
    /\ wpc[c] = "cleanup"
    /\ dirs' = [dirs EXCEPT ![DirOf(c)] =
                  [@ EXCEPT !.files = cleanup_old_segments(@, MAX_SEGMENTS)]]
    /\ wpc' = [wpc EXCEPT ![c] = "loop"]
    /\ UNCHANGED <<ffmpeg, sess, written, cur, proc, sig, wclock, sessions>>

Worker(c) ==
    \/ WorkerInit(c)
    \/ StartSession(c)
    \/ SessionBackoff(c)
    \/ ProcessDies(c)
    \/ OpenSegment(c)
    \/ WriteSegment(c)
    \/ StopSession(c)
    \/ WaitSession(c)
    \/ CleanupSegments(c)

(***************************************************************************)
(* Assembler                                                               *)
(***************************************************************************)
\* ts_files[:required] taken from the oldest end of the list.
SelectOldest(files, listing, duration_minutes) ==
    LET ts_files == SortByMtimeDesc({f \in files : FileName(f) \in listing})
        required_segments == (duration_minutes * 60) \div SEGMENT_DURATION
    IN  SortByPath(Range(Drop(ts_files, Len(ts_files) - required_segments)))

\* required_segments computed without the minutes-to-seconds factor.
SelectMinutesAsSeconds(files, listing, duration_minutes) ==
    LET ts_files == SortByMtimeDesc({f \in files : FileName(f) \in listing})
        required_segments == duration_minutes
    IN  SortByPath(Range(Take(ts_files, required_segments)))

\* ts_files of get_available_segments: (path, mtime) of every listed file,
\* sorted by mtime descending
stat_listing(files, listing) ==
    SortByMtimeDesc({f \in files : FileName(f) \in listing})

\* A selection that starts past as many segments as outputs were written.
SelectPastDelivered(files, listing, duration_minutes) ==
    IF \E n \in listing : \A f \in files : FileName(f) # n THEN <<>>
    ELSE LET ts_files == Drop(stat_listing(files, listing), made)
             required_segments == (duration_minutes * 60) \div SEGMENT_DURATION
         IN  SortByPath(Range(Take(ts_files, required_segments)))

\* get_available_segments after os.listdir returned `listing`: stat every
\* listed file (a vanished one raises, and the handler returns []), sort by
\* mtime descending, keep the first required_segments, sort the paths.
get_available_segments(files, listing, duration_minutes) ==
    IF \E n \in listing : \A f \in files : FileName(f) # n THEN <<>>
    ELSE LET ts_files == stat_listing(files, listing)
             required_segments == (duration_minutes * 60) \div SEGMENT_DURATION
         IN  SortByPath(Range(Take(ts_files, required_segments)))

\* the file of that name as the directory holds it now
Current(files, s) == CHOOSE f \in files : FileName(f) = FileName(s)

RECURSIVE CurrentOf(_, _)
CurrentOf(files, segments) ==
    IF segments = <<>> THEN <<>>
    ELSE <<Current(files, Head(segments))>> \o CurrentOf(files, Tail(segments))

\* A filter that only tests existence.
ValidIfExists(files, segments) ==
    CurrentOf(files,
        SelectSeq(segments, LAMBDA s : \E f \in files : FileName(f) = FileName(s)))

\* [s for s in segments if os.path.exists(s) and os.path.getsize(s) > 0]
valid_segments(files, segments) ==
    CurrentOf(files,
        SelectSeq(segments,
            LAMBDA s : \E f \in files : FileName(f) = FileName(s) /\ f.size > 0))

\* the paths of a file list, in its order
PathsOf(seq) == [i \in DOMAIN seq |-> FileName(seq[i])]

\* A deliverable recordings/<safe>_<dur>min_<ts>.mp4: the concatenation of
\* the listed segments; its size grows with their number.
Mp4(safe, dur, ts, ctime, segs) ==
    [safe |-> safe, dur |-> dur, ts |-> ts, ctime |-> ctime,
     n |-> Len(segs), segs |-> PathsOf(segs)]
Mp4Path(r) == <<r.safe, r.dur, r.ts>>
\* the file name up to the first character after the camera part
Mp4NameStart(r) == r.safe \o <<"_", "0">>

IsPrefix(p, s) == Len(p) <= Len(s) /\ SubSeq(s, 1, Len(p)) = p

RECURSIVE InsertByCtimeDesc(_, _)
InsertByCtimeDesc(seq, r) ==
    IF seq = <<>> \/ Head(seq).ctime <= r.ctime THEN <<r>> \o seq
    ELSE <<Head(seq)>> \o InsertByCtimeDesc(Tail(seq), r)

RECURSIVE SortByCtimeDescInto(_, _)
SortByCtimeDescInto(acc, S) ==
    IF S = {} THEN acc
    ELSE LET r == CHOOSE x \in S : TRUE
         IN  SortByCtimeDescInto(InsertByCtimeDesc(acc, r), S \ {r})

SortByCtimeDesc(S) == SortByCtimeDescInto(<<>>, S)

\* A prune that takes every .mp4 file of recordings/ for the camera's.
CleanupAnyCamera(recs, safe_camera_name, keep_count) ==
    recs \ Range(Drop(SortByCtimeDesc(recs), keep_count))

cleanup_old_recordings(recs, safe_camera_name, keep_count) ==
    LET camera_files ==
            SortByCtimeDesc({r \in recs :
                IsPrefix(safe_camera_name \o <<"_">>, Mp4NameStart(r))})
    IN  recs \ Range(Drop(camera_files, keep_count))

(***************************************************************************)
(* Query API: one request at a time on the event loop                      *)
(***************************************************************************)
Ops == {"recording", "download", "status", "segments", "cameras", "stats", "health"}
\* the handlers that take a camera_location
Lookups == {"recording", "download", "status", "segments"}
\* the handlers that take a duration and return the assembled file
Assembling == {"recording", "download"}
\* the handlers that call get_latest_recording(camera_name) for every camera
Sweeping == {"cameras", "stats"}
\* duration_minutes values sent by clients
Durations == {MIN_DURATION - 1, 1, 2, 3, 4, MAX_DURATION, MAX_DURATION + 1}

\* camera_location values sent by clients: the first camera's full name and
\* a part of the last camera's name
Locations == { cameras[1], <<"t","a","k","s","i","m">> }

NoResp ==
    [kind |-> "none", names |-> <<>>, n |-> 0, out |-> <<>>, size |-> 0, active |-> 0,
     running |-> FALSE]

\* health_check: "recordings_active": len(recording_threads) > 0, and
\* get_recording_stats: system_status "Running" if recording_threads
recordings_active == Len(recording_threads) > 0
Resp(kind) == [NoResp EXCEPT !.kind = kind]

IdleReq ==
    [op |-> "none", loc |-> <<>>, d |-> 0, pc |-> "idle", cam |-> NoCamera, idx |-> 0,
     listing |-> {}, ts_files |-> <<>>, segments |-> <<>>, valid |-> <<>>,
     ts |-> 0, resp |-> NoResp]

Finish(r, resp) == [r EXCEPT !.pc = "done", !.resp = resp]

\* get_latest_recording(r.cam, r.d) returns: the two assembling handlers
\* answer; a sweeping handler counts the file (stats also adds its size and
\* counts the camera as active) and goes on to the next camera.
Return(r, resp) ==
    IF r.op \in Sweeping
    THEN LET got == resp.kind = "ok"
             sum == [r.resp EXCEPT
                        !.n = @ + (IF got THEN 1 ELSE 0),
                        !.size = @ + (IF got /\ r.op = "stats" THEN resp.n ELSE 0),
                        !.active = @ + (IF got /\ r.op = "stats" THEN 1 ELSE 0)]
         IN
         IF r.idx < Len(tbl)
         THEN [r EXCEPT !.idx = @ + 1, !.cam = tbl[r.idx + 1], !.pc = "list",
                        !.listing = {}, !.ts_files = <<>>, !.segments = <<>>,
                        !.valid = <<>>, !.ts = 0, !.resp = sum]
         ELSE Finish(r, [sum EXCEPT !.kind = r.op,
                                    !.running = (r.op = "stats" /\ recordings_active)])
    ELSE Finish(r, resp)

\* get_camera_or_404 with the 404 left out: every identifier resolves.
LookupFirstCamera(r) == [r EXCEPT !.cam = tbl[1], !.pc = "list"]

\* get_camera_or_404 and what follows it in each handler
Lookup(r) ==
    LET camera_name == find_camera_by_location(tbl, r.loc)
    IN  IF camera_name = NoCamera
        THEN Finish(r, [Resp("notfound") EXCEPT !.names = tbl])
        ELSE [r EXCEPT !.cam = camera_name, !.pc = "list"]

\* A handler entry that looks the camera up before checking the duration.
EnterLookupFirst(r) ==
    IF Lookup(r).pc = "done" THEN Lookup(r)
    ELSE IF r.op \in Assembling /\ (r.d < MIN_DURATION \/ r.d > MAX_DURATION)
         THEN Finish(Lookup(r), Resp("validation"))
         ELSE Lookup(r)

\* Handler entry: the duration check of the two assembling handlers, then
\* the camera lookup.
Enter(r) ==
    IF r.op \in Assembling /\ (r.d < MIN_DURATION \/ r.d > MAX_DURATION)
    THEN Finish(r, Resp("validation"))
    ELSE Lookup(r)

\* The duration a successful response tells: the response carries the file
\* path, size and modification time; the path names the requested minutes.
ReportedSeconds(resp) == resp.out[2] * 60

\* A handler is entered.
ReqBegin(op, loc, d) ==
    /\ req.pc = "idle"
    /\ requests < quota
    /\ requests' = requests + 1
    /\ req' = IF op \in Sweeping
              THEN [IdleReq EXCEPT !.op = op, !.d = DEFAULT_RECORDING_DURATION,
                                   !.idx = 1, !.cam = tbl[1], !.pc = "list"]
              ELSE IF op = "health"
                   THEN Finish([IdleReq EXCEPT !.op = op],
                               [Resp(op) EXCEPT !.running = recordings_active])
              ELSE Enter([IdleReq EXCEPT !.op = op, !.loc = loc, !.d = d])
    /\ UNCHANGED <<wvars, late, recordings, manifests, rclock, made, oks, fvars>>

\* os.path.exists(camera_ts_dir) and os.listdir(camera_ts_dir)
ReqListDir ==
    /\ req.pc = "list"
    /\ LET dir == dirs[DirOf(req.cam)] IN
       req' = IF dir.exists
              THEN [req EXCEPT !.listing = {FileName(f) : f \in TsFiles(dir.files)},
                               !.pc = "stat"]
              ELSE IF req.op \in Assembling \cup Sweeping
                   THEN Return(req, Resp("norecording"))
              ELSE Finish(req, Resp(req.op))
    /\ UNCHANGED <<wvars, late, requests, recordings, manifests, rclock, made, oks, fvars>>

\* The status and segments handlers without their except clauses: the
\* FileNotFoundError of a vanished file leaves the handler.
ReqStatUncaught ==
    /\ req.pc = "stat"
    /\ LET files == dirs[DirOf(req.cam)].files
           gone == \E n \in req.listing : \A f \in files : FileName(f) # n
           segments == get_available_segments(files, req.listing, req.d)
       IN  req' = IF req.op \in Assembling \cup Sweeping
                  THEN IF segments = <<>> THEN Return(req, Resp("norecording"))
                       ELSE [req EXCEPT !.ts_files = stat_listing(files, req.listing),
                                        !.segments = segments, !.pc = "filter"]
                  ELSE IF gone THEN Finish(req, Resp("exception"))
                  ELSE Finish(req, [Resp(req.op) EXCEPT !.n = Cardinality(req.listing)])
    /\ UNCHANGED <<wvars, late, requests, recordings, manifests, rclock, made, oks, fvars>>

\* The stat of every listed file and what the handler derives from it.
ReqStat ==
    /\ req.pc = "stat"
    /\ LET files == dirs[DirOf(req.cam)].files
           gone == \E n \in req.listing : \A f \in files : FileName(f) # n
           segments == get_available_segments(files, req.listing, req.d)
       IN  req' = IF req.op \in Assembling \cup Sweeping
                  THEN IF segments = <<>> THEN Return(req, Resp("norecording"))
                       ELSE [req EXCEPT !.ts_files = stat_listing(files, req.listing),
                                        !.segments = segments, !.pc = "filter"]
                  ELSE IF gone THEN Finish(req, Resp("error"))
                  ELSE Finish(req, [Resp(req.op) EXCEPT !.n = Cardinality(req.listing)])
    /\ UNCHANGED <<wvars, late, requests, recordings, manifests, rclock, made, oks, fvars>>

\* create_mp4_from_segments up to the written file list
ReqFilter ==
    /\ req.pc = "filter"
    /\ LET valid == valid_segments(dirs[DirOf(req.cam)].files, req.segments) IN
       IF ~ffmpeg \/ valid = <<>>
       THEN /\ req' = Return(req, Resp("norecording"))
            /\ UNCHANGED <<manifests, rclock>>
       ELSE \E t \in {rclock, rclock + 1} \ {0} :
              /\ req' = [req EXCEPT !.valid = valid, !.ts = t, !.pc = "concat"]
              /\ manifests' = manifests \cup {<<DirOf(req.cam), t>>}
              /\ rclock' = t
    /\ UNCHANGED <<wvars, late, requests, recordings, made, oks, fvars>>

\* A concat run started without a timeout: an ffmpeg that does not exit
\* keeps the handler in the call.
ReqConcatNoTimeout ==
    /\ req.pc = "concat"
    /\ LET safe == DirOf(req.cam)
           out == Mp4(safe, req.d, req.ts, made + 1, req.valid)
           others == {r \in recordings : Mp4Path(r) # Mp4Path(out)}
       IN  \/ /\ manifests' = manifests \ {<<safe, req.ts>>}
              /\ recordings' = others \cup {out}
              /\ made' = made + 1
              /\ req' = [req EXCEPT !.pc = "prune"]
           \/ /\ req' = [req EXCEPT !.pc = "hung"]
              /\ UNCHANGED <<manifests, recordings, made>>
    /\ UNCHANGED <<wvars, late, requests, rclock, oks, fvars>>

\* The concat run of ffmpeg (-y: an output file of that name is replaced).
\* Exit 0 with the output in place: os.remove(filelist_path) and the file is
\* returned.  A non-zero exit: the file list is removed, whatever ffmpeg
\* wrote stays, None.  TimeoutExpired: the except clause, the file list and
\* whatever ffmpeg wrote stay, None.
ReqConcat ==
    /\ req.pc = "concat"
    /\ LET safe == DirOf(req.cam)
           files == dirs[DirOf(req.cam)].files
           readable == \A s \in Range(req.valid) :
                          \E f \in files : FileName(f) = FileName(s)
           out == Mp4(safe, req.d, req.ts, made + 1, req.valid)
           part == Mp4(safe, req.d, req.ts, made + 1, <<>>)
           others == {r \in recordings : Mp4Path(r) # Mp4Path(out)}
       IN  \/ /\ readable
              /\ manifests' = manifests \ {<<safe, req.ts>>}
              /\ recordings' = others \cup {out}
              /\ made' = made + 1
              /\ req' = [req EXCEPT !.pc = "prune"]
           \/ \E timeout \in BOOLEAN, left \in BOOLEAN :
                 /\ manifests' = IF timeout THEN manifests
                                 ELSE manifests \ {<<safe, req.ts>>}
                 /\ IF left
                    THEN recordings' = others \cup {part} /\ made' = made + 1
                    ELSE UNCHANGED <<recordings, made>>
                 /\ req' = Return(req, Resp("norecording"))
    /\ UNCHANGED <<wvars, late, requests, rclock, oks, fvars>>

\* A prune that keeps no file, the one just written included.
ReqPruneKeepNone ==
    /\ req.pc = "prune"
    /\ LET safe == DirOf(req.cam) IN
       /\ recordings' = cleanup_old_recordings(recordings, safe, 0)
       /\ oks' = [oks EXCEPT ![safe] = @ + 1]
       /\ req' = Return(req, [Resp("ok") EXCEPT !.n = Len(req.valid),
                                                 !.out = <<safe, req.d, req.ts>>])
    /\ UNCHANGED <<wvars, late, requests, manifests, rclock, made, fvars>>

\* A prune that also removes the segments it consumed.
ReqPruneConsumed ==
    /\ req.pc = "prune"
    /\ LET safe == DirOf(req.cam) IN
       /\ recordings' = cleanup_old_recordings(recordings, safe, KEEP_COUNT)
       /\ dirs' = [dirs EXCEPT ![safe] =
                     [@ EXCEPT !.files = @ \ Range(req.valid)]]
       /\ oks' = [oks EXCEPT ![safe] = @ + 1]
       /\ req' = Return(req, [Resp("ok") EXCEPT !.n = Len(req.valid),
                                                 !.out = <<safe, req.d, req.ts>>])
    /\ UNCHANGED <<ffmpeg, wpc, sess, written, cur, proc, sig, wclock, sessions,
                   late, requests, manifests, rclock, made, fvars>>

\* cleanup_old_recordings(safe_name, keep_count=2) and the returned file
ReqPrune ==
    /\ req.pc = "prune"
    /\ LET safe == DirOf(req.cam) IN
       /\ recordings' = cleanup_old_recordings(recordings, safe, KEEP_COUNT)
       /\ oks' = [oks EXCEPT ![safe] = @ + 1]
       /\ req' = Return(req, [Resp("ok") EXCEPT !.n = Len(req.valid),
                                                 !.out = <<safe, req.d, req.ts>>])
    /\ UNCHANGED <<wvars, late, requests, manifests, rclock, made, fvars>>

\* The response has been sent.
ReqReturn ==
    /\ req.pc = "done"
    /\ req' = IdleReq
    /\ UNCHANGED <<wvars, late, requests, recordings, manifests, rclock, made, oks, fvars>>

Api ==
    \/ \E op \in Ops :
         \E loc \in (IF op \in Lookups THEN Locations ELSE {<<>>}) :
           \E d \in (IF op \in Assembling THEN Durations ELSE {0}) :
             ReqBegin(op, loc, d)
    \/ ReqListDir
    \/ ReqStat
    \/ ReqFilter
    \/ ReqConcat
    \/ ReqPrune
    \/ ReqReturn

\* A worker step; once requests arrive, at most MaxRace more of them.
WorkerStep(c) ==
    /\ requests = 0 \/ late < MaxRace
    /\ Worker(c)
    /\ late' = IF requests = 0 THEN late ELSE late + 1
    /\ UNCHANGED <<avars, fvars>>

(***************************************************************************)
(* The system                                                              *)
(***************************************************************************)
\* startup_event has run: recording_threads = start_all_recordings(), one
\* thread per entry of the camera table
ThreadsStarted ==
    /\ recording_threads = tbl
    /\ threads = [c \in CameraNames |-> 1]

\* "newest_segment_age_seconds": None is <<>>, an age a is <<a>>
NoStatus ==
    [camera_name |-> NoCamera, status |-> "none", available |-> 0,
     total_duration_seconds |-> 0, newest_segment_age_seconds |-> <<>>]

\* no request was sent to GET /cameras
NoReply == [contacted |-> FALSE, ok |-> FALSE, success |-> FALSE, cameras |-> {}]

\* CameraMonitor.__init__, and no status computed
MonitorNew ==
    /\ now = 1
    /\ status = NoStatus
    /\ cameras_cache = <<>>
    /\ cache_timestamp = 0
    /\ reply = NoReply
    /\ mret = <<>>
    /\ mcalls = 0

\* no duration was turned into request minutes yet
NoClip == [fn |-> "none", duration |-> 0, local |-> FALSE, sent |-> <<>>]

\* capture_video was not called
NoCapture ==
    [pc |-> "idle", valid |-> TRUE, attempt |-> 0, elapsed |-> 0, rc |-> 0,
     file |-> "missing", tried |-> <<>>, result |-> "none"]

\* record_camera has not been started; recordings/ holds no file of the camera
NoRecorder == [pc |-> "init", files |-> {}, ts |-> 0, clock |-> 0, runs |-> 0]

\* get_latest_recording was not called (a returned file is <<timestamp>>)
NoLatest == [asked |-> FALSE, file |-> <<>>, state |-> "none"]

\* no client call made, no capture asked for, the recorder not started
ClientsNew ==
    /\ clip = NoClip
    /\ cap = NoCapture
    /\ rec = NoRecorder
    /\ latest = NoLatest

Init ==
    /\ ClientsNew
    /\ tbl = SubSeq(cameras, 1, MaxCameras)
    /\ quota = MaxRequests
    /\ ffmpeg \in BOOLEAN
    /\ wpc = [c \in CameraNames |-> "init"]
    /\ sess = [c \in CameraNames |-> 0]
    /\ written = [c \in CameraNames |-> 0]
    /\ cur = [c \in CameraNames |-> NoFile]
    /\ proc = [c \in CameraNames |-> "none"]
    /\ sig = [c \in CameraNames |-> "none"]
    /\ wclock = [d \in SafeNames |-> 0]
    /\ dirs = [d \in SafeNames |-> NoDir]
    /\ sessions = 0
    /\ late = 0
    /\ req = IdleReq
    /\ requests = 0
    /\ recordings = {}
    /\ manifests = {}
    /\ rclock = 0
    /\ made = 0
    /\ oks = [d \in SafeNames |-> 0]
    /\ qry = <<>>
    /\ found = NotAsked
    /\ ThreadsStarted
    /\ MonitorNew

Next ==
    \/ \E c \in CameraNames : WorkerStep(c)
    \/ Api

Spec == Init /\ [][Next]_vars

(***************************************************************************)
(* The status of a camera, computed over drawn stores at a drawn time      *)
(***************************************************************************)
\* max(ts_files, key=mtime)[1]
NewestMtime(S) == (CHOOSE f \in S : \A g \in S : g.mtime <= f.mtime).mtime
OldestMtime(S) == (CHOOSE f \in S : \A g \in S : g.mtime >= f.mtime).mtime

\* A status whose age is that of the oldest segment.
StatusByOldest(camera_name, dir, t) ==
    LET ts_files == IF dir.exists THEN TsFiles(dir.files) ELSE {}
        available == Cardinality(ts_files)
        age == IF ts_files # {} THEN <<t - OldestMtime(ts_files)>> ELSE <<>>
    IN  [camera_name |-> camera_name,
         available |-> available,
         total_duration_seconds |-> available * SEGMENT_DURATION,
         newest_segment_age_seconds |-> age,
         status |-> IF available > 0
                    THEN IF age[1] < ACTIVE_SECONDS
                         THEN "Active - receiving live segments"
                         ELSE "Segments available but not receiving live data"
                    ELSE "No data available"]

\* The segments part and the label of get_camera_status at time t, the
\* directory not changing while it is read.
get_camera_status(camera_name, dir, t) ==
    LET ts_files == IF dir.exists THEN TsFiles(dir.files) ELSE {}
        available == Cardinality(ts_files)
        age == IF ts_files # {} THEN <<t - NewestMtime(ts_files)>> ELSE <<>>
    IN  [camera_name |-> camera_name,
         available |-> available,
         total_duration_seconds |-> available * SEGMENT_DURATION,
         newest_segment_age_seconds |-> age,
         status |-> IF available > 0
                    THEN IF age[1] < ACTIVE_SECONDS
                         THEN "Active - receiving live segments"
                         ELSE "Segments available but not receiving live data"
                    ELSE "No data available"]

\* the worker threads have been started and have not run yet
WorkersNew ==
    /\ wpc = [c \in CameraNames |-> "init"]
    /\ sess = [c \in CameraNames |-> 0]
    /\ written = [c \in CameraNames |-> 0]
    /\ cur = [c \in CameraNames |-> NoFile]
    /\ proc = [c \in CameraNames |-> "none"]
    /\ sig = [c \in CameraNames |-> "none"]
    /\ wclock = [d \in SafeNames |-> 0]
    /\ sessions = 0
    /\ late = 0

\* no request has arrived and recordings/ is empty
NoRequests ==
    /\ req = IdleReq
    /\ requests = 0
    /\ recordings = {}
    /\ manifests = {}
    /\ rclock = 0
    /\ made = 0
    /\ oks = [d \in SafeNames |-> 0]
    /\ qry = <<>>
    /\ found = NotAsked

\* Segment directories as an earlier run of the server left them: absent,
\* or holding up to MaxStatusSegs segments last modified in 1..MaxMtime.
DrawnStores ==
    { NoDir } \cup
    { [exists |-> TRUE,
       files |-> {TsFile(1, o - 1, ms[o], 1) : o \in 1..k} \cup {PlaylistFile}] :
          k \in 0..MaxStatusSegs, ms \in [1..MaxStatusSegs -> 1..MaxMtime] }

InitStatus ==
    /\ ClientsNew
    /\ tbl = SubSeq(cameras, 1, MaxCameras)
    /\ quota = 0
    /\ ffmpeg = TRUE
    /\ WorkersNew
    /\ dirs \in [SafeNames -> DrawnStores]
    /\ NoRequests
    /\ ThreadsStarted
    /\ MonitorNew

\* a second of wall-clock time passes
Tick ==
    /\ now < MaxNow
    /\ now' = now + 1
    /\ UNCHANGED <<wvars, late, avars, xvars, tbl, quota, qry, found, tvars,
                   status, cameras_cache, cache_timestamp, reply, mret, mcalls>>

GetStatus(c) ==
    /\ status = NoStatus
    /\ status' = get_camera_status(c, dirs[DirOf(c)], now)
    /\ UNCHANGED <<wvars, late, avars, xvars, tbl, quota, qry, found, tvars,
                   now, cameras_cache, cache_timestamp, reply, mret, mcalls>>

NextStatus ==
    \/ status = NoStatus /\ Tick
    \/ \E c \in CameraNames : GetStatus(c)

SpecStatus == InitStatus /\ [][NextStatus]_vars

(***************************************************************************)
(* The scenario of a full store: all five cameras are configured, the      *)
(* third one's first session has written MAX_SEGMENTS segments, the first  *)
(* one's has written ApiSegments segments or has not started, the others   *)
(* have not started; a getRecording of two minutes for the third camera is *)
(* followed by a stats request.                                            *)
(***************************************************************************)
StoreOf(n) ==
    [exists |-> TRUE,
     files |-> {TsFile(1, o, o + 1, 1) : o \in 0..(n - 1)} \cup {PlaylistFile}]

InitScenario ==
    /\ ClientsNew
    /\ tbl = cameras
    /\ quota = 2
    /\ ffmpeg = TRUE
    /\ \E first \in {NoDir, StoreOf(ApiSegments)} :
          dirs = [d \in SafeNames |->
                    IF d = DirOf(cameras[3]) THEN StoreOf(MAX_SEGMENTS)
                    ELSE IF d = DirOf(cameras[1]) THEN first
                    ELSE NoDir]
    /\ wpc = [c \in CameraNames |->
                IF dirs[DirOf(c)].exists THEN "capturing" ELSE "init"]
    /\ sess = [c \in CameraNames |-> IF dirs[DirOf(c)].exists THEN 1 ELSE 0]
    /\ written = [c \in CameraNames |-> Cardinality(TsFiles(dirs[DirOf(c)].files))]
    /\ cur = [c \in CameraNames |-> NoFile]
    /\ proc = [c \in CameraNames |->
                 IF dirs[DirOf(c)].exists THEN "running" ELSE "none"]
    /\ sig = [c \in CameraNames |-> "none"]
    /\ wclock = [d \in SafeNames |-> Cardinality(TsFiles(dirs[d].files))]
    /\ sessions = Cardinality({d \in SafeNames : dirs[d].exists})
    /\ late = 0
    /\ NoRequests
    /\ ThreadsStarted
    /\ MonitorNew

ScenarioCall ==
    \/ requests = 0 /\ ReqBegin("recording", cameras[3], 2)
    \/ requests = 1 /\ ReqBegin("stats", <<>>, 0)

NextScenario ==
    \/ ScenarioCall
    \/ ReqListDir
    \/ ReqStat
    \/ ReqFilter
    \/ ReqConcat
    \/ ReqPrune
    \/ ReqReturn

SpecScenario == InitScenario /\ [][NextScenario]_vars

(***************************************************************************)
(* Starting the workers: the startup hook and POST /start-recordings       *)
(***************************************************************************)
\* start_all_recordings(): one thread per entry of the camera table, started
\* in the table's order; the list of them is returned.
start_all_recordings ==
    /\ threads' = [c \in CameraNames |-> threads[c] + 1]
    /\ wpc' = [c \in CameraNames |-> "init"]

\* startup_event: recording_threads = start_all_recordings(), before the
\* server takes its first request.
Startup ==
    /\ \A c \in CameraNames : wpc[c] = "unstarted"
    /\ start_all_recordings
    /\ recording_threads' = tbl
    /\ UNCHANGED <<ffmpeg, sess, written, cur, proc, sig, wclock, dirs, sessions,
                   late, avars, xvars, tbl, quota, qry, found, cvars>>

\* A start_recordings that does not look at the thread list.
StartRecordingsAgain ==
    /\ req.pc = "idle"
    /\ requests < quota
    /\ \E c \in CameraNames : wpc[c] # "unstarted"
    /\ requests' = requests + 1
    /\ start_all_recordings
    /\ recording_threads' = tbl
    /\ req' = Finish([IdleReq EXCEPT !.op = "start"],
                     [Resp("start") EXCEPT !.n = Len(tbl)])
    /\ UNCHANGED <<ffmpeg, sess, written, cur, proc, sig, wclock, dirs, sessions,
                   late, recordings, manifests, rclock, made, oks,
                   xvars, tbl, quota, qry, found, cvars>>

\* POST /start-recordings: with a non-empty thread list the answer is
\* "Recordings already running"; with an empty one the threads are started.
StartRecordings ==
    /\ req.pc = "idle"
    /\ requests < quota
    /\ \E c \in CameraNames : wpc[c] # "unstarted"
    /\ requests' = requests + 1
    /\ IF recording_threads # <<>>
       THEN /\ req' = Finish([IdleReq EXCEPT !.op = "start"],
                             [Resp("start") EXCEPT !.n = Len(recording_threads)])
            /\ UNCHANGED <<wpc, tvars>>
       ELSE /\ start_all_recordings
            /\ recording_threads' = tbl
            /\ req' = Finish([IdleReq EXCEPT !.op = "start"],
                             [Resp("start") EXCEPT !.n = Len(tbl)])
    /\ UNCHANGED <<ffmpeg, sess, written, cur, proc, sig, wclock, dirs, sessions,
                   late, recordings, manifests, rclock, made, oks,
                   xvars, tbl, quota, qry, found, cvars>>

\* The module has been imported: no thread yet.
InitThreads ==
    /\ ClientsNew
    /\ tbl = SubSeq(cameras, 1, MaxCameras)
    /\ quota = MaxCalls
    /\ ffmpeg \in BOOLEAN
    /\ wpc = [c \in CameraNames |-> "unstarted"]
    /\ sess = [c \in CameraNames |-> 0]
    /\ written = [c \in CameraNames |-> 0]
    /\ cur = [c \in CameraNames |-> NoFile]
    /\ proc = [c \in CameraNames |-> "none"]
    /\ sig = [c \in CameraNames |-> "none"]
    /\ wclock = [d \in SafeNames |-> 0]
    /\ dirs = [d \in SafeNames |-> NoDir]
    /\ sessions = 0
    /\ late = 0
    /\ NoRequests
    /\ recording_threads = <<>>
    /\ threads = [c \in CameraNames |-> 0]
    /\ MonitorNew

NextThreads ==
    \/ Startup
    \/ StartRecordings
    \/ ReqReturn
    \/ \E c \in CameraNames : WorkerStep(c)

SpecThreads == InitThreads /\ [][NextThreads]_vars

(***************************************************************************)
(* CameraMonitor (src/camera_monitor.py): the cached camera list           *)
(***************************************************************************)
\* What _api_request("cameras") can give: None (no answer, or not HTTP 200),
\* or the JSON body with its success flag and its cameras.
Replies ==
    { [contacted |-> TRUE, ok |-> FALSE, success |-> FALSE, cameras |-> {}] } \cup
    { [contacted |-> TRUE, ok |-> TRUE, success |-> sc, cameras |-> S] :
          sc \in BOOLEAN, S \in SUBSET Range(SubSeq(cameras, 1, 2)) }

\* {name: f"api://{name}" for name in data['cameras'].keys()}
CacheOf(names) == [n \in names |-> <<"api://">> \o n]

\* A cache that is still served when it is exactly cache_duration old.
GetCamerasInclusive ==
    /\ mcalls < MaxMonitorCalls
    /\ mcalls' = mcalls + 1
    /\ LET current_time == now IN
       IF /\ cache_timestamp # 0
          /\ current_time - cache_timestamp <= cache_duration
          /\ DOMAIN cameras_cache # {}
       THEN /\ mret' = cameras_cache
            /\ reply' = NoReply
            /\ UNCHANGED <<cameras_cache, cache_timestamp>>
       ELSE \E data \in Replies :
              /\ reply' = data
              /\ IF data.ok /\ data.success /\ data.cameras # {}
                 THEN /\ cameras_cache' = CacheOf(data.cameras)
                      /\ cache_timestamp' = current_time
                      /\ mret' = CacheOf(data.cameras)
                 ELSE /\ mret' = CacheOf({})
                      /\ UNCHANGED <<cameras_cache, cache_timestamp>>
    /\ UNCHANGED <<wvars, late, avars, xvars, tbl, quota, qry, found, tvars, now, status>>

\* CameraMonitor._get_cameras_from_api
GetCameras ==
    /\ mcalls < MaxMonitorCalls
    /\ mcalls' = mcalls + 1
    /\ LET current_time == now IN
       IF /\ cache_timestamp # 0
          /\ current_time - cache_timestamp < cache_duration
          /\ DOMAIN cameras_cache # {}
       THEN /\ mret' = cameras_cache
            /\ reply' = NoReply
            /\ UNCHANGED <<cameras_cache, cache_timestamp>>
       ELSE \E data \in Replies :
              /\ reply' = data
              /\ IF data.ok /\ data.success /\ data.cameras # {}
                 THEN /\ cameras_cache' = CacheOf(data.cameras)
                      /\ cache_timestamp' = current_time
                      /\ mret' = CacheOf(data.cameras)
                 ELSE /\ mret' = CacheOf({})
                      /\ UNCHANGED <<cameras_cache, cache_timestamp>>
    /\ UNCHANGED <<wvars, late, avars, xvars, tbl, quota, qry, found, tvars, now, status>>

InitCache ==
    /\ ClientsNew
    /\ tbl = SubSeq(cameras, 1, MaxCameras)
    /\ quota = 0
    /\ ffmpeg = TRUE
    /\ WorkersNew
    /\ dirs = [d \in SafeNames |-> NoDir]
    /\ NoRequests
    /\ ThreadsStarted
    /\ MonitorNew

NextCache ==
    \/ Tick
    \/ GetCameras

SpecCache == InitCache /\ [][NextCache]_vars

(***************************************************************************)
(* The clients' durations: CameraMonitor and the UI                        *)
(***************************************************************************)
Max(a, b) == IF a > b THEN a ELSE b
Min(a, b) == IF a < b THEN a ELSE b

\* record_clip with the value above 10 taken as minutes
ClipMinutesUnconverted(duration) == Max(1, Min(10, duration))

\* record_clip: max(1, min(10, duration if duration <= 10 else duration // 60))
record_clip_minutes(duration) ==
    Max(1, Min(10, IF duration <= 10 THEN duration ELSE duration \div 60))

\* download_recording: max(1, min(10, duration_minutes))
download_recording_minutes(duration_minutes) == Max(1, Min(10, duration_minutes))

\* analyze_camera_stream: max(1, min(10, int(duration_minutes))), handed to
\* record_clip as its duration
analyze_camera_stream_minutes(duration_minutes) ==
    record_clip_minutes(Max(1, Min(10, duration_minutes)))

\* the integer durations a caller hands over
ClientDurations == (0 - MaxClientDuration) .. MaxClientDuration

\* record_clip(name, duration): one request for the recording and, when the
\* returned path is not a local file, download_recording with the same minutes
RecordClip(duration, local) ==
    LET m == record_clip_minutes(duration)
    IN  clip' = [fn |-> "record_clip", duration |-> duration, local |-> local,
                 sent |-> IF local THEN <<m>>
                          ELSE <<m, download_recording_minutes(m)>>]

\* download_recording(name, duration_minutes)
DownloadRecording(duration_minutes) ==
    clip' = [fn |-> "download_recording", duration |-> duration_minutes,
             local |-> FALSE,
             sent |-> <<download_recording_minutes(duration_minutes)>>]

\* analyze_camera_stream(camera_name, duration_minutes)
AnalyzeCameraStream(duration_minutes, local) ==
    LET m == analyze_camera_stream_minutes(duration_minutes)
    IN  clip' = [fn |-> "analyze_camera_stream", duration |-> duration_minutes,
                 local |-> local,
                 sent |-> IF local THEN <<m>>
                          ELSE <<m, download_recording_minutes(m)>>]

\* One call at a time: the caller waits for the call's result.
ClientCall ==
    /\ clip.fn = "none"
    /\ \E d \in ClientDurations :
          \/ \E local \in BOOLEAN : RecordClip(d, local)
          \/ DownloadRecording(d)
          \/ \E local \in BOOLEAN : AnalyzeCameraStream(d, local)
    /\ UNCHANGED <<wvars, late, avars, tbl, quota, qry, found, tvars, cvars,
                   cap, rec, latest>>

InitClient ==
    /\ ClientsNew
    /\ tbl = SubSeq(cameras, 1, MaxCameras)
    /\ quota = 0
    /\ ffmpeg = TRUE
    /\ WorkersNew
    /\ dirs = [d \in SafeNames |-> NoDir]
    /\ NoRequests
    /\ ThreadsStarted
    /\ MonitorNew

\* the call has returned
ClientReturn ==
    /\ clip.fn # "none"
    /\ clip' = NoClip
    /\ UNCHANGED <<wvars, late, avars, tbl, quota, qry, found, tvars, cvars,
                   cap, rec, latest>>

NextClient ==
    \/ ClientCall
    \/ ClientReturn

SpecClient == InitClient /\ [][NextClient]_vars

(***************************************************************************)
(* capture_video of the MCP server: three ffmpeg attempts                  *)
(***************************************************************************)
\* cmd1, cmd2, cmd3 and the timeout_sec each is run with
AttemptKinds == <<"remux", "copy_video_encode_audio", "full_reencode">>
AttemptTimeouts == <<30, 45, 120>>

\* what os.path.exists / os.path.getsize can find at filepath
FileStates == {"missing", "empty", "nonempty"}

\* capture_video(location_key): an unknown key raises ValueError before any
\* attempt; otherwise filepath is planned and cmd1 is to be run
CaptureBegin(valid) ==
    /\ cap.pc = "idle"
    /\ cap' = IF valid
              THEN [NoCapture EXCEPT !.pc = "spawn", !.attempt = 1]
              ELSE [NoCapture EXCEPT !.pc = "raised", !.valid = FALSE,
                                     !.result = "ValueError"]
    /\ UNCHANGED <<wvars, late, avars, tbl, quota, qry, found, tvars, cvars,
                   clip, rec, latest>>

\* _run_ffmpeg: asyncio.create_subprocess_exec starts ffmpeg, or raises
\* when the executable cannot be started; nothing in _run_ffmpeg or
\* capture_video catches that
CaptureSpawn(started) ==
    /\ cap.pc = "spawn"
    /\ cap' = IF started
              THEN [cap EXCEPT !.pc = "wait", !.elapsed = 0]
              ELSE [cap EXCEPT !.pc = "raised", !.result = "OSError"]
    /\ UNCHANGED <<wvars, late, avars, tbl, quota, qry, found, tvars, cvars,
                   clip, rec, latest>>

\* time passes while wait_for(proc.communicate(), timeout_sec) waits
CaptureTick ==
    /\ cap.pc = "wait"
    /\ cap.elapsed < AttemptTimeouts[cap.attempt]
    /\ cap' = [cap EXCEPT !.elapsed = Min(@ + CaptureStep, AttemptTimeouts[cap.attempt])]
    /\ UNCHANGED <<wvars, late, avars, tbl, quota, qry, found, tvars, cvars,
                   clip, rec, latest>>

\* ffmpeg exits by itself before the timeout, with return code rc, leaving
\* the output path in state file (-y: the path is the same in all attempts)
CaptureExit(rc, file) ==
    /\ cap.pc = "wait"
    /\ cap.elapsed < AttemptTimeouts[cap.attempt]
    /\ cap' = [cap EXCEPT !.pc = "exited", !.rc = rc, !.file = file,
                          !.tried = Append(@, [kind |-> AttemptKinds[cap.attempt],
                                               rc |-> rc, killed |-> FALSE,
                                               elapsed |-> cap.elapsed])]
    /\ UNCHANGED <<wvars, late, avars, tbl, quota, qry, found, tvars, cvars,
                   clip, rec, latest>>

\* asyncio.TimeoutError: proc.kill(), await proc.wait(), return 124; the
\* killed ffmpeg leaves whatever it had written
CaptureTimeout(file) ==
    /\ cap.pc = "wait"
    /\ cap.elapsed = AttemptTimeouts[cap.attempt]
    /\ cap' = [cap EXCEPT !.pc = "exited", !.rc = 124, !.file = file,
                          !.tried = Append(@, [kind |-> AttemptKinds[cap.attempt],
                                               rc |-> 124, killed |-> TRUE,
                                               elapsed |-> cap.elapsed])]
    /\ UNCHANGED <<wvars, late, avars, tbl, quota, qry, found, tvars, cvars,
                   clip, rec, latest>>

\* capture_video's check with _check_file_nonempty left out
CaptureCheckExitCodeOnly ==
    /\ cap.pc = "exited"
    /\ cap' = IF cap.rc = 0
              THEN [cap EXCEPT !.pc = "returned", !.result = "filepath"]
              ELSE IF cap.attempt < Len(AttemptKinds)
                   THEN [cap EXCEPT !.pc = "spawn", !.attempt = @ + 1]
                   ELSE [cap EXCEPT !.pc = "raised", !.result = "RuntimeError"]
    /\ UNCHANGED <<wvars, late, avars, tbl, quota, qry, found, tvars, cvars,
                   clip, rec, latest>>

\* if rc == 0: _check_file_nonempty(filepath); return filepath -- else the
\* next command, and RuntimeError after the third
CaptureCheck ==
    /\ cap.pc = "exited"
    /\ cap' = IF cap.rc = 0
              THEN IF cap.file = "nonempty"
                   THEN [cap EXCEPT !.pc = "returned", !.result = "filepath"]
                   ELSE [cap EXCEPT !.pc = "raised", !.result = "RuntimeError"]
              ELSE IF cap.attempt < Len(AttemptKinds)
                   THEN [cap EXCEPT !.pc = "spawn", !.attempt = @ + 1]
                   ELSE [cap EXCEPT !.pc = "raised", !.result = "RuntimeError"]
    /\ UNCHANGED <<wvars, late, avars, tbl, quota, qry, found, tvars, cvars,
                   clip, rec, latest>>

InitCapture ==
    /\ ClientsNew
    /\ tbl = SubSeq(cameras, 1, MaxCameras)
    /\ quota = 0
    /\ ffmpeg = TRUE
    /\ WorkersNew
    /\ dirs = [d \in SafeNames |-> NoDir]
    /\ NoRequests
    /\ ThreadsStarted
    /\ MonitorNew

NextCapture ==
    \/ \E valid \in BOOLEAN : CaptureBegin(valid)
    \/ \E started \in BOOLEAN : CaptureSpawn(started)
    \/ CaptureTick
    \/ \E rc \in {0, 1}, file \in FileStates : CaptureExit(rc, file)
    \/ \E file \in FileStates : CaptureTimeout(file)
    \/ CaptureCheck

SpecCapture == InitCapture /\ [][NextCapture]_vars

(***************************************************************************)
(* Bare prunes of a drawn recordings/ directory                            *)
(***************************************************************************)
\* k deliverables of a camera, written at seconds 1..k, created in that
\* order after the base-th file of the directory
DeliverablesOf(c, k, base) ==
    {Mp4(DirOf(c), DEFAULT_RECORDING_DURATION, i, base + i, <<TsFile(1, 0, 1, 1)>>) :
        i \in 1..k}

\* position of a camera in the table
IndexOf(c) == CHOOSE i \in DOMAIN cameras : cameras[i] = c

InitPrune ==
    /\ ClientsNew
    /\ tbl = cameras
    /\ quota = 0
    /\ ffmpeg = TRUE
    /\ WorkersNew
    /\ dirs = [d \in SafeNames |-> NoDir]
    /\ req = IdleReq
    /\ requests = 0
    /\ \E k \in [CameraNames -> 0..MaxKept] :
          recordings = UNION {DeliverablesOf(c, k[c], MaxKept * IndexOf(c)) :
                                c \in CameraNames}
    /\ manifests \in {{}, {<<DirOf(cameras[1]), 1>>}}
    /\ rclock = MaxKept
    /\ made = MaxKept * (Len(cameras) + 1)
    /\ oks = [d \in SafeNames |-> 0]
    /\ qry = <<>>
    /\ found = NotAsked
    /\ ThreadsStarted
    /\ MonitorNew

\* cleanup_old_recordings(safe_name, keep_count=2) for one camera
PruneFor(c) ==
    /\ recordings' = cleanup_old_recordings(recordings, DirOf(c), KEEP_COUNT)
    /\ recordings' # recordings
    /\ UNCHANGED <<wvars, late, req, requests, manifests, rclock, made, oks, fvars>>

NextPrune == \E c \in CameraNames : PruneFor(c)

SpecPrune == InitPrune /\ [][NextPrune]_vars

(***************************************************************************)
(* camera_mcp_server: one camera's recorder thread and the queries         *)
(***************************************************************************)
\* recordings/<safe_name>_<timestamp>.mp4 as ffmpeg or the file system has
\* it: size 0 or more, writing while the ffmpeg that opened it runs, then
\* complete (return code 0) or failed
ClipFile(ts, ctime, mtime, size, state) ==
    [ts |-> ts, ctime |-> ctime, mtime |-> mtime, size |-> size, state |-> state]

\* the file of the run at hand, as a set
OwnClip(r) == {f \in r.files : f.ts = r.ts}

\* camera_files.sort(key=creation time, reverse=True); remove camera_files[1:]
KeepNewestClip(files) ==
    IF files = {} THEN {}
    ELSE {CHOOSE f \in files : \A g \in files : g.ctime <= f.ctime}

\* record_camera up to the loop: without ffmpeg the thread returns
RecInit ==
    /\ rec.pc = "init"
    /\ \E ffmpeg_path \in BOOLEAN :
          rec' = [rec EXCEPT !.pc = IF ffmpeg_path THEN "loop" ELSE "exited"]
    /\ UNCHANGED <<wvars, late, avars, tbl, quota, qry, found, tvars, cvars,
                   clip, cap, latest>>

\* top of the loop: a new timestamp in the file name, subprocess.run(cmd)
RecStart ==
    /\ rec.pc = "loop"
    /\ rec.runs < MaxRuns
    /\ rec' = [rec EXCEPT !.pc = "recording", !.ts = @ + 1, !.runs = @ + 1]
    /\ UNCHANGED <<wvars, late, avars, tbl, quota, qry, found, tvars, cvars,
                   clip, cap, latest>>

\* the running ffmpeg creates its output file, or writes more of it
RecWrite ==
    /\ rec.pc = "recording"
    /\ \A f \in OwnClip(rec) : f.size < MaxClipSize
    /\ rec' = [rec EXCEPT
                 !.clock = @ + 1,
                 !.files = IF OwnClip(rec) = {}
                           THEN @ \cup {ClipFile(rec.ts, rec.clock + 1, rec.clock + 1,
                                                 0, "writing")}
                           ELSE {IF f.ts = rec.ts
                                 THEN [f EXCEPT !.size = @ + 1, !.mtime = rec.clock + 1]
                                 ELSE f : f \in @}]
    /\ UNCHANGED <<wvars, late, avars, tbl, quota, qry, found, tvars, cvars,
                   clip, cap, latest>>

\* result.returncode == 0: the clip is complete; cleanup_old_recordings
\* keeps the file of the newest creation time; time.sleep(2)
RecDone ==
    /\ rec.pc = "recording"
    /\ \E f \in OwnClip(rec) : f.size > 0
    /\ rec' = [rec EXCEPT
                 !.pc = "loop",
                 !.files = KeepNewestClip(
                              {IF f.ts = rec.ts THEN [f EXCEPT !.state = "complete"]
                               ELSE f : f \in @})]
    /\ UNCHANGED <<wvars, late, avars, tbl, quota, qry, found, tvars, cvars,
                   clip, cap, latest>>

\* a non-zero return code, or TimeoutExpired after 120 s (ffmpeg is
\* killed): the message is printed, what ffmpeg wrote stays, no cleanup;
\* time.sleep(2) or time.sleep(5)
RecFail ==
    /\ rec.pc = "recording"
    /\ rec' = [rec EXCEPT
                 !.pc = "loop",
                 !.files = {IF f.ts = rec.ts THEN [f EXCEPT !.state = "failed"]
                            ELSE f : f \in @}]
    /\ UNCHANGED <<wvars, late, avars, tbl, quota, qry, found, tvars, cvars,
                   clip, cap, latest>>

\* get_latest_recording(camera_name): the file of the latest modification
\* time, if it exists and is not empty; None otherwise
GetLatest ==
    /\ latest' =
          IF rec.files = {} THEN [NoLatest EXCEPT !.asked = TRUE]
          ELSE LET latest_file == CHOOSE f \in rec.files :
                                     \A g \in rec.files : g.mtime <= f.mtime
               IN  IF latest_file.size > 0
                   THEN [asked |-> TRUE, file |-> <<latest_file.ts>>,
                         state |-> latest_file.state]
                   ELSE [NoLatest EXCEPT !.asked = TRUE]
    /\ latest' # latest
    /\ UNCHANGED <<wvars, late, avars, tbl, quota, qry, found, tvars, cvars,
                   clip, cap, rec>>

InitRecorder ==
    /\ ClientsNew
    /\ tbl = SubSeq(cameras, 1, MaxCameras)
    /\ quota = 0
    /\ ffmpeg = TRUE
    /\ WorkersNew
    /\ dirs = [d \in SafeNames |-> NoDir]
    /\ NoRequests
    /\ ThreadsStarted
    /\ MonitorNew

NextRecorder ==
    \/ RecInit
    \/ RecStart
    \/ RecWrite
    \/ RecDone
    \/ RecFail
    \/ GetLatest

SpecRecorder == InitRecorder /\ [][NextRecorder]_vars

(***************************************************************************)
(* Bare camera lookups on drawn camera tables                              *)
(***************************************************************************)
NameChars == {"A", "a", "Ii", "-"}

RECURSIVE Texts(_)
Texts(n) ==
    IF n = 0 THEN {<<>>}
    ELSE Texts(n - 1) \cup {Append(t, ch) : t \in Texts(n - 1), ch \in NameChars}

Names == Texts(MaxNameLen) \ {<<>>}

InitFind ==
    /\ ClientsNew
    /\ tbl \in {<<a, b>> : a \in Names, b \in Names} \cup {<<a>> : a \in Names}
    /\ \A i \in DOMAIN tbl, j \in DOMAIN tbl : i # j => tbl[i] # tbl[j]
    /\ qry \in Texts(MaxNameLen)
    /\ found = NotAsked
    /\ ThreadsStarted
    /\ MonitorNew
    /\ quota = 0
    /\ ffmpeg = TRUE
    /\ wpc = [c \in CameraNames |-> "init"]
    /\ sess = [c \in CameraNames |-> 0]
    /\ written = [c \in CameraNames |-> 0]
    /\ cur = [c \in CameraNames |-> NoFile]
    /\ proc = [c \in CameraNames |-> "none"]
    /\ sig = [c \in CameraNames |-> "none"]
    /\ wclock = [d \in SafeNames |-> 0]
    /\ dirs = [d \in SafeNames |-> NoDir]
    /\ sessions = 0
    /\ late = 0
    /\ req = IdleReq
    /\ requests = 0
    /\ recordings = {}
    /\ manifests = {}
    /\ rclock = 0
    /\ made = 0
    /\ oks = [d \in SafeNames |-> 0]

FindCamera ==
    /\ found = NotAsked
    /\ found' = find_camera_by_location(tbl, qry)
    /\ UNCHANGED <<wvars, late, avars, xvars, tbl, quota, qry, tvars, cvars>>

NextFind == FindCamera

SpecFind == InitFind /\ [][NextFind]_vars

(***************************************************************************)
(* A server that only serves: the first session of every camera has        *)
(* written ApiSegments segments and is still capturing; requests follow    *)
(* one another with no worker step in between.                             *)
(***************************************************************************)
InitApi ==
    /\ ClientsNew
    /\ tbl = SubSeq(cameras, 1, MaxCameras)
    /\ quota = MaxCalls
    /\ ffmpeg = TRUE
    /\ wpc = [c \in CameraNames |-> "capturing"]
    /\ sess = [c \in CameraNames |-> 1]
    /\ written = [c \in CameraNames |-> ApiSegments]
    /\ cur = [c \in CameraNames |-> NoFile]
    /\ proc = [c \in CameraNames |-> "running"]
    /\ sig = [c \in CameraNames |-> "none"]
    /\ wclock = [d \in SafeNames |-> ApiSegments]
    /\ dirs = [d \in SafeNames |->
                [exists |-> TRUE,
                 files |-> {TsFile(1, o, o + 1, 1) : o \in 0..(ApiSegments - 1)}
                              \cup {PlaylistFile}]]
    /\ sessions = Len(tbl)
    /\ late = 0
    /\ req = IdleReq
    /\ requests = 0
    /\ recordings = {}
    /\ manifests = {}
    /\ rclock = 0
    /\ made = 0
    /\ oks = [d \in SafeNames |-> 0]
    /\ qry = <<>>
    /\ found = NotAsked
    /\ ThreadsStarted
    /\ MonitorNew

NextApi == Api

SpecApi == InitApi /\ [][NextApi]_vars

(***************************************************************************)
(* A server that only captures: one worker thread per camera               *)
(***************************************************************************)
InitWorkers ==
    /\ ClientsNew
    /\ tbl = SubSeq(cameras, 1, WorkerCameras)
    /\ quota = 0
    /\ ffmpeg \in BOOLEAN
    /\ wpc = [c \in CameraNames |-> "init"]
    /\ sess = [c \in CameraNames |-> 0]
    /\ written = [c \in CameraNames |-> 0]
    /\ cur = [c \in CameraNames |-> NoFile]
    /\ proc = [c \in CameraNames |-> "none"]
    /\ sig = [c \in CameraNames |-> "none"]
    /\ wclock = [d \in SafeNames |-> 0]
    /\ dirs = [d \in SafeNames |-> NoDir]
    /\ sessions = 0
    /\ late = 0
    /\ req = IdleReq
    /\ requests = 0
    /\ recordings = {}
    /\ manifests = {}
    /\ rclock = 0
    /\ made = 0
    /\ oks = [d \in SafeNames |-> 0]
    /\ qry = <<>>
    /\ found = NotAsked
    /\ ThreadsStarted
    /\ MonitorNew

NextWorkers == \E c \in CameraNames : WorkerStep(c)

SpecWorkers == InitWorkers /\ [][NextWorkers]_vars

(***************************************************************************)
(* A server started over the directories an earlier run left               *)
(***************************************************************************)
\* The .ts files an earlier run of the server can leave in a camera's
\* directory when it is stopped: none, the MAX_SEGMENTS files a cleanup
\* kept, or those and the MAX_SEGMENTS files of the session it was stopped
\* in.  The earlier run's sessions are numbered -1 and 0.
LeftoverCounts == {0, MAX_SEGMENTS, 2 * MAX_SEGMENTS}

LeftBy(k) ==
    [exists |-> k > 0,
     files |-> {TsFile(0 - 1, o, o + 1, 1) : o \in 0..(Min(k, MAX_SEGMENTS) - 1)}
               \cup {TsFile(0, o, MAX_SEGMENTS + o + 1, 1) :
                        o \in 0..(k - MAX_SEGMENTS - 1)}
               \cup (IF k > 0 THEN {PlaylistFile} ELSE {})]

\* os.makedirs(camera_ts_dir, exist_ok=True): the worker takes the
\* directory as it finds it
InitRestart ==
    /\ ClientsNew
    /\ tbl = SubSeq(cameras, 1, MaxCameras)
    /\ quota = 0
    /\ ffmpeg \in BOOLEAN
    /\ wpc = [c \in CameraNames |-> "init"]
    /\ sess = [c \in CameraNames |-> 0]
    /\ written = [c \in CameraNames |-> 0]
    /\ cur = [c \in CameraNames |-> NoFile]
    /\ proc = [c \in CameraNames |-> "none"]
    /\ sig = [c \in CameraNames |-> "none"]
    /\ sessions = 0
    /\ late = 0
    /\ \E k \in LeftoverCounts :
          /\ dirs = [d \in SafeNames |-> LeftBy(k)]
          /\ wclock = [d \in SafeNames |-> k]
    /\ NoRequests
    /\ ThreadsStarted
    /\ MonitorNew

NextRestart == \E c \in CameraNames : WorkerStep(c)

SpecRestart == InitRestart /\ [][NextRestart]_vars

(***************************************************************************)
(* Properties                                                              *)
(***************************************************************************)
CeilDiv(a, b) == (a + b - 1) \div b
Segs(c) == TsFiles(dirs[DirOf(c)].files)
SegNames(c) == {FileName(f) : f \in Segs(c)}
NonEmpty(S) == {f \in S : f.size > 0}

\* C1: at every moment every camera's segment directory holds at most
\* MAX_SEGMENTS .ts files.
C1_SegmentCountBounded ==
    \A c \in CameraNames : Cardinality(Segs(c)) <= MAX_SEGMENTS

\* C2: a cleanup of a directory holding n .ts files leaves exactly
\* min(n, MAX_SEGMENTS) of them, deletes only files that are no newer than
\* every retained one, and leaves every other file in place.
C2_CleanupKeepsNewest ==
    [][\A c \in CameraNames :
        (wpc[c] = "cleanup" /\ wpc'[c] = "loop") =>
            LET before == dirs[DirOf(c)].files
                after == dirs'[DirOf(c)].files
                n == Cardinality(TsFiles(before))
            IN  /\ after \subseteq before
                /\ Cardinality(TsFiles(after)) = Min(n, MAX_SEGMENTS)
                /\ \A gone \in before \ after, kept \in TsFiles(after) :
                       gone.mtime <= kept.mtime
                /\ (before \ TsFiles(before)) \subseteq after]_vars

\* C2 witness: a cleanup has run on a directory that held more than
\* MAX_SEGMENTS segments and a playlist.
C2_Witness ==
    \E c \in CameraNames :
        /\ wpc[c] = "loop"
        /\ wclock[DirOf(c)] >= 2 * MAX_SEGMENTS
        /\ Cardinality(Segs(c)) = MAX_SEGMENTS
        /\ PlaylistFile \in dirs[DirOf(c)].files

\* C3: for every duration d in 1..10 and every store of n segments the
\* selection holds min(ceil(d*60/SEGMENT_DURATION), n) segments, all of them
\* at least as recent as every segment left out; with enough segments it
\* covers d*60 seconds to within one segment length.  Stated of the store a
\* request would find, and of the selection a request has made.
C3_SelectsMostRecent ==
    /\ req.pc = "idle" => \A c \in CameraNames : \A d \in MIN_DURATION..MAX_DURATION :
        LET sel == get_available_segments(dirs[DirOf(c)].files, SegNames(c), d)
            n == Cardinality(Segs(c))
            need == CeilDiv(d * 60, SEGMENT_DURATION)
            covered == Len(sel) * SEGMENT_DURATION
        IN  /\ Len(sel) = Min(need, n)
            /\ Cardinality(Range(sel)) = Len(sel)
            /\ Range(sel) \subseteq Segs(c)
            /\ \A s \in Range(sel), o \in Segs(c) \ Range(sel) : o.mtime <= s.mtime
            /\ n >= need =>
                 /\ covered - d * 60 <= SEGMENT_DURATION
                 /\ d * 60 - covered <= SEGMENT_DURATION
    /\ req.pc = "filter" =>
        /\ Len(req.segments) =
             Min(CeilDiv(req.d * 60, SEGMENT_DURATION), Cardinality(req.listing))
        /\ \A s \in Range(req.segments), o \in Range(req.ts_files) \ Range(req.segments) :
               o.mtime <= s.mtime

\* C3 witness: a request for 2 minutes has selected 12 of more than 12
\* segments.
C3_Witness ==
    /\ req.pc = "filter"
    /\ req.d = 2
    /\ Len(req.segments) = 12
    /\ Cardinality(req.listing) > 12

Ascending(seq) ==
    \A i \in DOMAIN seq : \A j \in DOMAIN seq : i < j => seq[i].mtime < seq[j].mtime
NamesOf(seq) == {FileName(seq[i]) : i \in DOMAIN seq}
Usable(files, s) == \E f \in files : FileName(f) = FileName(s) /\ f.size > 0
Required(d) == CeilDiv(d * 60, SEGMENT_DURATION)
BadDuration(r) ==
    r.op \in Assembling /\ (r.d < MIN_DURATION \/ r.d > MAX_DURATION)
Unknown(r) == r.op # "none" /\ find_camera_by_location(tbl, r.loc) = NoCamera
FilesUnchanged == UNCHANGED <<dirs, recordings, manifests>>

\* C4: the segments written to a concatenation manifest are in ascending
\* capture-time order, also after the file ordinal wrapped in a session.
C4_ManifestInCaptureOrder ==
    req.pc = "concat" => Ascending(req.valid)

\* C5: a deliverable concatenates, in capture order, a contiguous suffix of
\* the segment sequence the request found: every segment from the oldest
\* concatenated one on that still has content, and nothing else.
C5_DeliverableIsSuffix ==
    [][(req.pc = "filter" /\ req'.pc = "concat") =>
        LET files == dirs[DirOf(req.cam)].files
            snap == Range(req.ts_files)
            used == NamesOf(req'.valid)
            oldest == CHOOSE s \in snap :
                        /\ FileName(s) \in used
                        /\ \A o \in snap : FileName(o) \in used => s.mtime <= o.mtime
        IN  /\ used = {FileName(s) : s \in {x \in snap : x.mtime >= oldest.mtime
                                                         /\ Usable(files, x)}}
            /\ Ascending(req'.valid)]_vars

\* C6: an assembling request with a duration outside 1..10 ends at once with
\* a validation error: no camera is looked up, no directory is listed, no
\* manifest or deliverable is written and none is pruned.
C6_InvalidDurationRejected ==
    /\ [](BadDuration(req) =>
            /\ req.pc = "done"
            /\ req.resp.kind = "validation"
            /\ req.cam = NoCamera
            /\ req.listing = {} /\ req.ts_files = <<>> /\ req.valid = <<>>)
    /\ [][(req' # req /\ (BadDuration(req) \/ BadDuration(req'))) => FilesUnchanged]_vars

\* C6 witness: a download of 11 minutes for an identifier that matches no
\* camera was answered with the validation error.
C6_Witness ==
    /\ req.pc = "done"
    /\ req.op = "download"
    /\ req.d = MAX_DURATION + 1
    /\ Unknown(req)
    /\ req.resp.kind = "validation"

\* C7 as claimed: every finished request whose identifier matches no
\* configured camera was answered not-found with all configured names.
C7_UnknownAlwaysNotFound ==
    (req.pc = "done" /\ Unknown(req)) =>
        (req.resp.kind = "notfound" /\ req.resp.names = tbl)

\* C7 amended: a request whose identifier matches no configured camera, and
\* whose duration (for the two assembling operations) lies in 1..10, is
\* answered not-found with all configured names and changes no file.
C7_UnknownNotFoundInRange ==
    /\ []((Unknown(req) /\ ~BadDuration(req)) =>
            /\ req.pc = "done"
            /\ req.resp.kind = "notfound"
            /\ req.resp.names = tbl)
    /\ [][(req' # req /\ (Unknown(req) \/ Unknown(req'))) => FilesUnchanged]_vars

\* C7 witness: getRecording with a valid duration was answered not-found.
C7_Witness ==
    /\ req.pc = "done"
    /\ req.op = "recording"
    /\ req.d = 2
    /\ req.resp.kind = "notfound"
    /\ req.resp.names = tbl

\* C8: the lookup compares ignoring case; a name equal to the query wins
\* over names that merely contain it; failing that, a name containing the
\* query is returned; no camera is returned only if no name contains it.
C8_ExactBeforePartial ==
    found # NotAsked =>
        LET q == Lower(qry)
            exact == {i \in DOMAIN tbl : Lower(tbl[i]) = q}
            part == {i \in DOMAIN tbl : Contains(Lower(tbl[i]), q)}
        IN  /\ exact # {} => (found \in Range(tbl) /\ Lower(found) = q)
            /\ (exact = {} /\ part # {}) =>
                   (found \in Range(tbl) /\ Contains(Lower(found), q))
            /\ found = NoCamera => part = {}

\* C8 witness: the query, in another case than configured, equals the second
\* name and is a proper part of the first; the second name was returned.
C8_Witness ==
    /\ Len(tbl) = 2
    /\ qry # tbl[2]
    /\ Lower(qry) = Lower(tbl[2])
    /\ Lower(qry) # Lower(tbl[1])
    /\ Contains(Lower(tbl[1]), Lower(qry))
    /\ found = tbl[2]

\* the request sees no usable segment at the step it is about to take
NothingUsable ==
    \/ req.pc = "list" /\ ~dirs[DirOf(req.cam)].exists
    \/ req.pc = "stat" /\ req.listing = {}
    \/ req.pc = "filter" /\
         \A s \in Range(req.segments) : ~Usable(dirs[DirOf(req.cam)].files, s)

\* C9: no zero-size segment is written into a manifest; when the store is
\* empty, or every selected segment is empty or missing, the request fails
\* as 'not ready', writes no deliverable or manifest and prunes nothing.
C9_EmptySegmentsNeverUsed ==
    /\ [](\A i \in DOMAIN req.valid : req.valid[i].size > 0)
    /\ [][(req.op \in Assembling /\ req' # req /\ NothingUsable) =>
            /\ req'.pc = "done"
            /\ req'.resp.kind = "norecording"
            /\ req'.valid = <<>>
            /\ UNCHANGED <<recordings, manifests>>]_vars

\* C9 witness: with the tool present a request selected segments, found
\* every one of them empty and failed.
C9_Witness ==
    /\ ffmpeg
    /\ req.pc = "done"
    /\ req.resp.kind = "norecording"
    /\ req.segments # <<>>
    /\ req.valid = <<>>
    /\ recordings = {}

\* what a finished, undisturbed request must have done with n usable segments:
\* concatenated all n (the only failure left is the concat tool's)
UsedAll(n) ==
    \/ req.resp.kind = "ok" /\ req.resp.n = n
    \/ req.resp.kind = "norecording" /\ Len(req.valid) = n

Undisturbed ==
    /\ req.op \in Assembling /\ req.pc = "done" /\ req.cam # NoCamera
    /\ late = 0 /\ ffmpeg

C11_ReportsCoveredDuration ==
    (req.pc = "done" /\ req.op = "recording" /\ req.resp.kind = "ok"
        /\ req.resp.n < Required(req.d)) =>
        ReportedSeconds(req.resp) = req.resp.n * SEGMENT_DURATION

RECURSIVE SumOver(_, _)
SumOver(f, S) ==
    IF S = {} THEN 0
    ELSE LET x == CHOOSE y \in S : TRUE IN f[x] + SumOver(f, S \ {x})

Deliverables(safe) == {r \in recordings : r.safe = safe}

\* C12: between requests, when every output file written so far came from a
\* successful assembly and a camera has had at least keep_count of them,
\* exactly keep_count deliverables of that camera remain, and (with one
\* camera) they are the keep_count files written last.
C12_RetentionExact ==
    (req.pc \in {"idle", "done"} /\ made = SumOver(oks, DOMAIN oks)) =>
        \A c \in CameraNames :
            oks[DirOf(c)] >= KEEP_COUNT =>
                /\ Cardinality(Deliverables(DirOf(c))) = KEEP_COUNT
                /\ \A r \in Deliverables(DirOf(c)) :
                      r.n > 0 /\ (Len(tbl) = 1 => r.ctime > made - KEEP_COUNT)

\* C13: an assembly never picks a manifest path or an output path at which a
\* file of another invocation exists, and a deliverable that stays on disk is
\* never rewritten.
C13_PathsNeverReused ==
    [][/\ (req.pc = "filter" /\ req'.pc = "concat") =>
              /\ <<DirOf(req.cam), req'.ts>> \notin manifests
              /\ \A r \in recordings :
                    Mp4Path(r) # <<DirOf(req.cam), req.d, req'.ts>>
       /\ \A r \in recordings :
              (r.n > 0 /\ \E r2 \in recordings' : Mp4Path(r2) = Mp4Path(r)) =>
                  r \in recordings']_vars

\* C14: when the concat tool fails or times out, getRecording answers with
\* an assembly error of its own kind (carrying the tool's diagnostic) and no
\* output file of that invocation is on disk.
C14_FailedConcatLeavesNothing ==
    [][(req.op \in Assembling /\ req.pc = "concat" /\ req'.pc = "done") =>
          /\ req'.resp.kind = "assembly"
          /\ \A r \in recordings' :
                Mp4Path(r) # <<DirOf(req.cam), req.d, req.ts>>]_vars

ReadOnlyOps == {"cameras", "status", "segments", "stats", "health"}

\* C15: no step of listCameras, getStatus, getSegmentsInfo, stats or health
\* creates, modifies or deletes a segment, manifest or deliverable.
C15_ReadOnlyOperations ==
    [][(req' # req /\ (req.op \in ReadOnlyOps \/ req'.op \in ReadOnlyOps)) =>
          FilesUnchanged]_vars

\* C16: listCameras assembles with the default duration, and starts an
\* assembly for a camera only if that camera has no deliverable.
C16_ListAssemblesOnlyIfMissing ==
    [][/\ req'.op = "cameras" => req'.d = DEFAULT_RECORDING_DURATION
       /\ (req.op = "cameras" /\ req.pc = "filter"
             /\ Deliverables(DirOf(req.cam)) # {}) => req'.pc # "concat"]_vars

\* what a worker thread holds: its position, session and process
WorkerLocal(c) == <<wpc[c], sess[c], written[c], cur[c], proc[c], sig[c]>>

\* C17: no step of an API request changes a segment directory, and a
\* segment directory changes only in a step of the worker of its own camera.
C17_SegmentsOwnedByWorker ==
    [][/\ req' # req => UNCHANGED dirs
       /\ \A d \in DOMAIN dirs :
             dirs'[d] # dirs[d] =>
                \E c \in CameraNames :
                    DirOf(c) = d /\ WorkerLocal(c)' # WorkerLocal(c)]_vars

\* C17 witness: an assembly returned a deliverable built from segments while
\* the worker went on, and the segments it used are all still in place.
C17_Witness ==
    /\ req.pc = "done"
    /\ req.resp.kind = "ok"
    /\ late > 0
    /\ recordings # {}
    /\ \A i \in DOMAIN req.valid : req.valid[i] \in dirs[DirOf(req.cam)].files

\* C18: a started capture worker never leaves its loop.
C18_WorkerNeverExits ==
    \A c \in CameraNames : wpc[c] # "exited"

\* C19: a session's process lives only while its worker captures or waits
\* for it; the graceful stop comes from the capturing worker, the kill only
\* after the graceful stop and on a process still alive; cleanup ends with
\* the process exited, and a session starts from the loop top with no live
\* process and at most MAX_SEGMENTS segments in the store.
C19_SessionCycleOrdered ==
    /\ [](\A c \in CameraNames :
            proc[c] = "running" => wpc[c] \in {"capturing", "waiting"})
    /\ [][\A c \in CameraNames :
            /\ (sig'[c] = "term" /\ sig[c] # "term") => wpc[c] = "capturing"
            /\ (sig'[c] = "kill" /\ sig[c] # "kill") =>
                   (sig[c] = "term" /\ proc[c] = "running" /\ wpc[c] = "waiting")
            /\ (wpc[c] = "cleanup" /\ wpc'[c] # "cleanup") => proc[c] = "exited"
            /\ sess'[c] # sess[c] =>
                   /\ wpc[c] = "loop"
                   /\ proc[c] # "running"
                   /\ Cardinality(Segs(c)) <= MAX_SEGMENTS]_vars

\* C19 witness: a second session was stopped, killed after the grace
\* period, and the cleanup that followed removed its surplus segments.
C19_Witness ==
    \E c \in CameraNames :
        /\ sess[c] = 2
        /\ wpc[c] = "loop"
        /\ sig[c] = "kill"
        /\ proc[c] = "exited"
        /\ Cardinality(Segs(c)) = MAX_SEGMENTS
        /\ wclock[DirOf(c)] >= 2 * MAX_SEGMENTS

\* the worker of camera b has a next step to take (the cleanup step has no
\* condition but the worker's position)
CanStep(b) ==
    \/ ENABLED WorkerInit(b)
    \/ ENABLED StartSession(b)
    \/ ENABLED SessionBackoff(b)
    \/ ENABLED ProcessDies(b)
    \/ ENABLED OpenSegment(b)
    \/ ENABLED WriteSegment(b)
    \/ ENABLED StopSession(b)
    \/ ENABLED WaitSession(b)
    \/ wpc[b] = "cleanup"

\* C20: the cameras of the table have pairwise different directories; a
\* step of one worker leaves every other worker and every other camera's
\* directory as they are; and a worker can always take its next step unless
\* it has itself returned (or used up the sessions of the model), whatever
\* the other workers do.
C20_WorkersIsolated ==
    [][/\ \A i \in DOMAIN cameras : \A j \in DOMAIN cameras :
            i # j => DirOf(cameras[i]) # DirOf(cameras[j])
       /\ \A b \in CameraNames :
            \/ CanStep(b)
            \/ wpc[b] = "exited"
            \/ wpc[b] = "loop" /\ sess[b] = MaxSessions
       /\ \A a \in CameraNames :
            WorkerLocal(a)' # WorkerLocal(a) =>
               \A b \in CameraNames \ {a} :
                  /\ WorkerLocal(b)' = WorkerLocal(b)
                  /\ dirs'[DirOf(b)] = dirs[DirOf(b)]
                  /\ wclock'[DirOf(b)] = wclock[DirOf(b)]]_vars

\* C20 witness: one worker sits in its backoff after its first session
\* raised while another has cleaned up after its second session, whose
\* directory had held more than MAX_SEGMENTS segments.
C20_Witness ==
    \E a \in CameraNames : \E b \in CameraNames :
        /\ a # b
        /\ wpc[a] = "backoff"
        /\ sess[a] = 1
        /\ wpc[b] = "loop"
        /\ sess[b] = MaxSessions
        /\ Cardinality(Segs(b)) = MAX_SEGMENTS


(***************************************************************************)
(* Readers racing the store (C21)                                          *)
(***************************************************************************)
\* the request listed a segment that the directory no longer holds, and
\* holds another one that it listed
Vanished(r) ==
    /\ r.cam # NoCamera
    /\ \E n \in r.listing : n \notin SegNames(r.cam)
    /\ \E n \in r.listing : n \in SegNames(r.cam)

\* C21: when a listed segment is gone at the time getRecording, getStatus or
\* getSegmentsInfo stats it while other listed segments remain, the request
\* goes on with the remaining segments: it neither fails nor answers that
\* there is nothing to record.
C21_VanishedSegmentSkipped ==
    [][ (/\ req.pc = "stat"
         /\ req' # req
         /\ req.op \in {"recording", "status", "segments"}
         /\ Vanished(req))
        => req'.resp.kind \notin {"error", "norecording"} ]_vars

(***************************************************************************)
(* Requests and the event loop (C22)                                       *)
(***************************************************************************)
\* C22: while a getRecording is inside its concatenation step and the
\* clients still have requests to send, another request (here the health
\* check, which touches no camera) can be taken up.
C22_RequestsDoNotSerialize ==
    (req.pc = "concat" /\ req.op = "recording" /\ requests < quota)
        => ENABLED ReqBegin("health", <<>>, 0)

(***************************************************************************)
(* Termination of requests (C23)                                           *)
(***************************************************************************)
\* Every blocking call of a handler comes back: the tool probe after at most
\* 10 s per path, the concat run after at most 120 s.
\* The event loop runs the handler that it entered.  ReqStat and ReqFilter
\* are enabled exactly in their positions "stat" and "filter": their weak
\* fairness is written with that condition in place of ENABLED.
SpecApiLive ==
    /\ InitApi /\ [][NextApi]_vars
    /\ WF_vars(ReqListDir)
    /\ []<>(req.pc # "stat") \/ []<><<ReqStat>>_vars
    /\ []<>(req.pc # "filter") \/ []<><<ReqFilter>>_vars
    /\ WF_vars(ReqConcat)
    /\ WF_vars(ReqPrune)
    /\ WF_vars(ReqReturn)

\* C23: every getRecording or download request that has been entered comes
\* to its response, and the response is a deliverable or an error; no
\* request stays in a step forever.
C23_RequestsTerminate ==
    /\ [](req.op \in Assembling /\ req.pc = "done"
            => req.resp.kind \in {"ok", "norecording", "validation", "notfound"})
    /\ (req.op \in Assembling /\ req.pc # "done") ~> (req.pc = "done")

\* a download whose concat run timed out (its file list is left) has answered
C23_Witness ==
    /\ req.op = "download"
    /\ req.pc = "done"
    /\ req.resp.kind = "norecording"
    /\ req.ts > 0
    /\ <<DirOf(req.cam), req.ts>> \in manifests

C25_StatusFromStore ==
    status # NoStatus =>
        LET S == Segs(status.camera_name)
            young == \E f \in S : now - f.mtime < 60
        IN  /\ status.available = Cardinality(S)
            /\ status.total_duration_seconds = Cardinality(S) * SEGMENT_DURATION
            /\ status.status = "No data available" <=> S = {}
            /\ status.status = "Active - receiving live segments"
                    <=> (S # {} /\ young)
            /\ status.status = "Segments available but not receiving live data"
                    <=> (S # {} /\ ~young)

\* three segments, the newest exactly 60 s old and an older one too: stale
C25_Witness ==
    /\ status.available = MaxStatusSegs
    /\ status.newest_segment_age_seconds = <<60>>
    /\ status.status = "Segments available but not receiving live data"
    /\ \E f \in Segs(status.camera_name) : now - f.mtime > 60

(***************************************************************************)
(* stats (C26, C27)                                                        *)
(***************************************************************************)
\* the size of a deliverable, in segments' worth of data
SizeOf == [r \in recordings |-> r.n]

\* C27: a stats response reports as many recording files as recordings/
\* holds, the sum of their sizes as the storage used, and as many active
\* cameras as configured cameras have a deliverable.
C27_StatsCountsFilesOnDisk ==
    (req.op = "stats" /\ req.pc = "done") =>
        /\ req.resp.n = Cardinality(recordings)
        /\ req.resp.size = SumOver(SizeOf, recordings)
        /\ req.resp.active =
              Cardinality({c \in CameraNames : Deliverables(DirOf(c)) # {}})

\* C26: in the scenario, a successful getRecording of two minutes returns
\* one deliverable made of the 12 most recent of the 18 segments, in their
\* order; and when only that camera has segments and no concat run failed,
\* the stats request that follows reports one recording file and the size of
\* that deliverable.
C26_ScenarioStats ==
    LET safe == DirOf(cameras[3])
        two == {r \in recordings : r.safe = safe /\ r.dur = 2 /\ r.n > 0}
    IN  /\ (req.op = "recording" /\ req.pc = "done" /\ req.resp.kind = "ok") =>
              /\ req.resp.n = 12
              /\ Cardinality(recordings) = 1
              /\ \A r \in recordings :
                    r.segs = [i \in 1..12 |-> <<1, i + 5, "ts">>]
        /\ (/\ req.op = "stats" /\ req.pc = "done"
            /\ two # {}
            /\ \A r \in recordings : r.n > 0
            /\ \A d \in SafeNames : d # safe => ~dirs[d].exists) =>
              /\ req.resp.n = 1
              /\ \A r \in two : req.resp.size = r.n

(***************************************************************************)
(* Request-path errors (C28)                                               *)
(***************************************************************************)
\* what a client can get: a success model, a model with success=False, or an
\* HTTPException (400, 404, 500) with its detail
StructuredKinds ==
    {"ok", "norecording", "validation", "notfound", "error",
     "status", "segments", "cameras", "stats", "health"}

\* C28: whatever the workers do to the store while a request runs, every
\* handler ends in a success result or a structured error, and a step of a
\* request changes no worker's position or process.
C28_ErrorsAreStructured ==
    [][ /\ req'.pc = "done" => req'.resp.kind \in StructuredKinds
        /\ req' # req => UNCHANGED <<wpc, proc, sig, sess, written, cur>> ]_vars

\* a status request met a vanished segment and answered HTTP 500; the worker
\* is at the top of its loop
C28_Witness ==
    /\ req.op = "status"
    /\ req.pc = "done"
    /\ req.resp.kind = "error"
    /\ Vanished(req)
    /\ wpc[req.cam] = "loop"
    /\ proc[req.cam] = "exited"

(***************************************************************************)
(* One worker per camera (C29)                                             *)
(***************************************************************************)
\* C29: no camera ever has more than one worker thread; once the startup
\* hook has run every configured camera has exactly one and the thread list
\* names each camera once; a POST /start-recordings that finds the list
\* non-empty changes neither the list nor any worker.
C29_OneWorkerPerCamera ==
    [][ /\ \A c \in CameraNames : threads'[c] <= 1
        /\ recording_threads' # <<>> =>
              /\ recording_threads' = tbl
              /\ \A c \in CameraNames : threads'[c] = 1
        /\ (req'.op = "start" /\ req.pc = "idle" /\ recording_threads # <<>>) =>
              UNCHANGED <<recording_threads, threads, wvars>> ]_vars

\* the second POST /start-recordings has been answered while the one worker
\* of the first camera is capturing
C29_Witness ==
    /\ req.op = "start"
    /\ req.pc = "done"
    /\ req.resp.n = Len(tbl)
    /\ requests = 2
    /\ threads[tbl[1]] = 1
    /\ wpc[tbl[1]] = "capturing"

(***************************************************************************)
(* The monitor's camera-list cache (C30)                                   *)
(***************************************************************************)
\* the reply is a failed fetch or one without cameras
NothingFetched(data) == ~data.ok \/ ~data.success \/ data.cameras = {}

\* C30: with t the time of the last successful non-empty fetch, a call
\* before t + 30 s returns the cached mapping and sends no request; a call
\* at or after t + 30 s sends one; a fetch that fails or brings no camera
\* returns the empty mapping and leaves the cached mapping and its time as
\* they were; a fetch that brings cameras is cached with the time of the
\* call.
C30_CameraListCache ==
    [][ mcalls' # mcalls =>
          LET cached == cache_timestamp # 0 /\ DOMAIN cameras_cache # {} IN
          /\ (cached /\ now < cache_timestamp + 30) =>
                /\ mret' = cameras_cache
                /\ ~reply'.contacted
                /\ UNCHANGED <<cameras_cache, cache_timestamp>>
          /\ (cached /\ now >= cache_timestamp + 30) => reply'.contacted
          /\ ~cached => reply'.contacted
          /\ (reply'.contacted /\ NothingFetched(reply')) =>
                /\ DOMAIN mret' = {}
                /\ UNCHANGED <<cameras_cache, cache_timestamp>>
          /\ (reply'.contacted /\ ~NothingFetched(reply')) =>
                /\ DOMAIN mret' = reply'.cameras
                /\ cameras_cache' = mret'
                /\ cache_timestamp' = now ]_vars

\* a call exactly 30 s after the fetch that filled the cache asked the API,
\* got nothing and returned the empty mapping; the cache is as it was
C30_Witness ==
    /\ mcalls >= 2
    /\ DOMAIN cameras_cache # {}
    /\ now = cache_timestamp + 30
    /\ reply.contacted
    /\ ~reply.ok
    /\ DOMAIN mret = {}
AttemptsInOrder ==
    /\ Len(cap.tried) <= Len(AttemptKinds)
    /\ \A i \in DOMAIN cap.tried :
          /\ cap.tried[i].kind = AttemptKinds[i]
          /\ cap.tried[i].elapsed <= AttemptTimeouts[i]
          /\ cap.tried[i].killed <=> cap.tried[i].elapsed = AttemptTimeouts[i]
          /\ cap.tried[i].killed => cap.tried[i].rc # 0
          /\ i < Len(cap.tried) => cap.tried[i].rc # 0
    /\ cap.pc \in {"spawn", "wait"} => cap.attempt = Len(cap.tried) + 1
    /\ cap.pc = "returned" =>
          /\ cap.tried # <<>>
          /\ cap.tried[Len(cap.tried)].rc = 0
          /\ cap.file = "nonempty"

AllThreeFailed ==
    /\ Len(cap.tried) = Len(AttemptKinds)
    /\ \A i \in DOMAIN cap.tried : cap.tried[i].rc # 0

ZeroExitWithoutFile ==
    /\ cap.tried # <<>>
    /\ cap.tried[Len(cap.tried)].rc = 0
    /\ cap.file \in {"missing", "empty"}

C33_SegmentCountTwiceBounded ==
    \A c \in CameraNames : Cardinality(Segs(c)) <= 2 * MAX_SEGMENTS

\* What a server stopped in its second session leaves: that session has
\* opened more segments than MAX_SEGMENTS, wrapping onto its own first
\* name, next to the MAX_SEGMENTS files the cleanup kept; the directory
\* holds exactly 2 x MAX_SEGMENTS .ts files.
StoppedInSecondSession ==
    \E c \in CameraNames :
        /\ Cardinality(Segs(c)) = 2 * MAX_SEGMENTS
        /\ written[c] > MAX_SEGMENTS
        /\ sess[c] >= 2

(***************************************************************************)
(* C34: every valid duration can be served in full                         *)
(***************************************************************************)
\* the request was answered with a file
Served(r) == r.pc = "done" /\ r.op \in Assembling /\ r.resp.kind = "ok"

\* the request found the directory as full as a run of the server makes it:
\* 2 x MAX_SEGMENTS non-empty segments
FoundFullStore(r) ==
    Cardinality({f \in Range(r.ts_files) : f.size > 0}) = 2 * MAX_SEGMENTS

\* C34: no valid duration is out of the store's reach: a request for d
\* minutes that finds the directory as full as it gets is served all
\* ceil(d * 60 / SEGMENT_DURATION) segments.
C34_EveryDurationAttainable ==
    Served(req) /\ FoundFullStore(req) => req.resp.n = Required(req.d)

\* In a run of the server no request for more than six minutes is ever
\* served in full.
LongDurationsNeverFull ==
    Served(req) /\ Required(req.d) > 2 * MAX_SEGMENTS => req.resp.n < Required(req.d)

\* a request for four minutes was served all its 24 segments
FourMinutesInFull ==
    Served(req) /\ req.d = 4 /\ req.resp.n = Required(4)

(***************************************************************************)
(* C35: a failed assembly leaves the earlier deliverables alone            *)
(***************************************************************************)
\* this step ends an assembly attempt without a file
AttemptFails ==
    /\ req.pc \in {"stat", "filter", "concat"}
    /\ req.op \in Assembling \cup Sweeping
    /\ req' = Return(req, Resp("norecording"))

\* C35: when an assembly attempt fails, every deliverable (the output of a
\* successful assembly) that existed before is still there with the content
\* it had: nothing is pruned, deleted or overwritten.
C35_FailedAttemptKeepsDeliverables ==
    [][AttemptFails => \A r \in recordings : r.n > 0 => r \in recordings']_vars

\* A failed attempt leaves alone every deliverable but the one at its own
\* output path.
FailedAttemptSparesOtherPaths ==
    [][AttemptFails =>
         \A r \in recordings :
            \/ r.n > 0 => r \in recordings'
            \/ Mp4Path(r) = <<DirOf(req.cam), req.d, req.ts>>]_vars

C37_ReturnedFileIsOwn ==
    Served(req) =>
        \E r \in recordings :
            /\ Mp4Path(r) = req.resp.out
            /\ r.ctime = made
            /\ r.segs = PathsOf(req.valid)

\* the third successful request for a camera was answered after its prune
\* removed the first request's file
C37_Witness ==
    /\ Served(req)
    /\ oks[DirOf(req.cam)] = 3
    /\ Cardinality(Deliverables(DirOf(req.cam))) = KEEP_COUNT

(***************************************************************************)
(* C38: no file list outlives its assembly attempt                         *)
(***************************************************************************)
\* C38: once an assembly attempt has finished, however it ended, its file
\* list is gone: outside a running concatenation recordings/ holds no file
\* list.
C38_NoManifestLeft ==
    req.pc # "concat" => manifests = {}

(***************************************************************************)
(* C39: a server that reports capture running has a live worker            *)
(***************************************************************************)
\* the worker thread of the camera has been started and has not returned
Alive(c) == wpc[c] \notin {"unstarted", "exited"}

\* C39: when /health answers recordings_active = true, or /stats answers
\* system_status "Running", some capture worker is alive at that moment.
C39_ActiveMeansLiveWorker ==
    [][(req.pc # "done" /\ req'.pc = "done" /\ req'.op \in {"health", "stats"}
          /\ req'.resp.running)
       => \E c \in CameraNames : Alive(c)]_vars

(***************************************************************************)
(* C40: the continuous recorder's latest clip                              *)
(***************************************************************************)
\* C40: the file get_latest_recording returns is a completed, successfully
\* recorded clip: never one ffmpeg is still writing, never one whose
\* recording failed.
C40_LatestIsCompleteClip ==
    latest.file # <<>> => latest.state = "complete"

====
